---- MODULE Spec2Model ----
(***************************************************************************)
(* Model of the ingestion-to-aggregation pipeline of logistar-turnover:    *)
(* SyncService.sync_inventory_logs / rebuild_daily_summary                 *)
(* (backend/services/sync_service.py), the standalone build_summary script *)
(* (backend/build_daily_summary.py) and the cached analytics reads         *)
(* (backend/services/analytics.py).                                        *)
(*                                                                         *)
(* Conventions                                                             *)
(*   - an optional (nullable) value is a sequence of length 0 or 1:        *)
(*     None == <<>>, Some(x) == <<x>>;                                     *)
(*   - a datetime is a number of hours since 2024-01-01 00:00:00, so       *)
(*     DATE(dt) is dt \div 24;                                             *)
(*   - a table whose rows carry an autoincrement id is a bag of rows       *)
(*     without the id (two rows that differ only in id are two copies).    *)
(***************************************************************************)
EXTENDS Integers, Sequences, FiniteSets, Bags, TLC

VARIABLES
    store,      \* inventory_logs as committed in the database
    sess,       \* inventory_logs as seen by the sync session (uncommitted upserts included)
    rollup,     \* invlog_daily_summary as committed in the database
    products,   \* products table: set of [product_barcode, volume_cbm]
    cache,      \* analytics._cache: set of [key, expiry, value, src]
    now,        \* time.time()
    logs,       \* sync_logs rows, one per run, in creation order
    pc,         \* position of the sync run inside sync_inventory_logs
    raw_logs,   \* the list returned by the fetch
    idx,        \* position in raw_logs of the next record to upsert
    count,      \* local variable count of sync_inventory_logs
    err,        \* the step at which the exception of the current run was raised
    hist,       \* steps of the current run that reached the database or the cache, in order
    snap,       \* store, rollup: the tables when the run started; rb: the summary
                \* table when its rebuild started; ext: the script wrote the summary
                \* table since then; sext: the run wrote it since the script started
    spc,        \* position of the build_summary script
    rpc,        \* position of the analytics read in flight
    rd,         \* the analytics read in flight: key, value, provenance
    ret,        \* what the last completed analytics read returned
    fetched,    \* records fetched so far by all runs
    chunker,    \* get_inventory_logs_chunked: the span, the cursor, the chunk
                \* ranges requested and the page requests sent, in order
    pager,      \* get_all_products: the source's total, the page number, all_data
                \* and the page requests sent, in order
    query,      \* the analytics request served: operation, filter, what the
                \* last call returned, calls served
    psync,      \* sync_products: position, fetched products, count, audit record
    bg,         \* POST /api/sync/products: what the caller received, the
                \* background task, whether an exception left the task
    daily,      \* daily_sync: position, clock, window, counts, return value
    ver         \* n: committed writes to invlog_daily_summary so far; rebuilt: the
                \* value of n that the insert of the last returned
                \* rebuild_daily_summary produced; scripts: script executions

vars == <<store, sess, rollup, products, cache, now, logs, pc, raw_logs, idx,
          count, err, hist, snap, spc, rpc, rd, ret, fetched, ver, chunker, pager, query,
          psync, bg, daily>>

\* the tables, the cache and the ingestion run
pipeline == <<store, sess, rollup, products, cache, now, logs, pc, raw_logs, idx,
              count, err, hist, snap, spc, rpc, rd, ret, fetched, ver>>

\* the components beside the ingestion run
side == <<chunker, pager, query, psync, bg, daily>>

notChunker == <<pipeline, pager, query, psync, bg, daily>>
notPager == <<pipeline, chunker, query, psync, bg, daily>>

(***************************************************************************)
(* Bounds                                                                  *)
(***************************************************************************)
MaxRuns == 2      \* ingestion runs per behaviour
MaxFetch == 3     \* records fetched per behaviour, all runs together
MaxScripts == 1   \* executions of the build_summary script per behaviour
MaxSpan == 13     \* the latest instant of a requested span, in months
MaxPages == 2     \* pages of one chunk
MaxTotal == 5     \* records the product source holds
MaxEvents == 3    \* records ingested before the reads are served
MaxTriggers == 2  \* calls of the product sync endpoint per behaviour
MaxLimit == 2     \* largest limit of a SKU breakdown request

(***************************************************************************)
(* Program constants                                                       *)
(***************************************************************************)
BATCH == 1                  \* sync_inventory_logs BATCH (1000), scaled to the fetch bound
CACHE_TTL_SECONDS == 300
DEFAULT_PAGE_SIZE == 2      \* settings.DEFAULT_PAGE_SIZE, scaled to MaxTotal
\* the instants at which the clock is observed
Instants == {0, CACHE_TTL_SECONDS - 1, CACHE_TTL_SECONDS}

None == <<>>
Some(x) == <<x>>

DIR_INBOUND == "inbound"
DIR_OUTBOUND == "outbound"

\* settings.INBOUND_OPERATION_TYPES / OUTBOUND_OPERATION_TYPES; the labels
\* are written in ASCII: "shangjia" for the put-away label, "dingdan" and
\* "fba" for the two check-out labels.
INBOUND_OPS == {"shangjia"}
OUTBOUND_OPS == {"dingdan", "fba"}

(***************************************************************************)
(* Raw field values as the remote API delivers them.                       *)
(*   k = "null" : JSON null;   k = "int" : a JSON number;                  *)
(*   k = "str"  : a JSON string, fmt tells what the text looks like:       *)
(*        "empty" the empty string, "zero" a text starting with 0000,      *)
(*        "ok" a text in the expected format (v is its value),             *)
(*        "bad" any other text.                                            *)
(***************************************************************************)
RawNull == [k |-> "null", fmt |-> "", v |-> 0]
RawInt(n) == [k |-> "int", fmt |-> "", v |-> n]
StrEmpty == [k |-> "str", fmt |-> "empty", v |-> 0]
StrZero == [k |-> "str", fmt |-> "zero", v |-> 0]
StrBad == [k |-> "str", fmt |-> "bad", v |-> 0]
StrOk(n) == [k |-> "str", fmt |-> "ok", v |-> n]

\* Python truthiness of a raw value ("if val", "not val")
Truthy(val) ==
    CASE val.k = "null" -> FALSE
      [] val.k = "int" -> val.v # 0
      [] OTHER -> val.fmt # "empty"

\* _parse_dt raises AttributeError on a truthy value without startswith:
\* the call val.startswith is outside the try block.
ParseDtRaises(val) == Truthy(val) /\ val.k # "str"

_parse_dt(val) ==
    IF ~Truthy(val) \/ val.fmt = "zero" THEN None
    ELSE IF val.fmt = "ok" THEN Some(val.v)
    ELSE None

_safe_int(val) ==
    IF ~Truthy(val) THEN None
    ELSE IF val.k = "int" THEN Some(val.v)
    ELSE IF val.fmt = "ok" THEN Some(val.v)
    ELSE None

\* str(raw.get("warehouse_id", ""))
WarehouseStr(n) == IF n = 13 THEN "13" ELSE IF n = 5 THEN "5" ELSE "?"

_classify_direction(operation_type) ==
    IF operation_type \in INBOUND_OPS THEN "inbound"
    ELSE IF operation_type \in OUTBOUND_OPS THEN "outbound"
    ELSE "other"

(***************************************************************************)
(* The raw records a fetch can deliver.                                    *)
(***************************************************************************)
Raw(ref, sku, ibl, wot, qty, op, cust, wh) ==
    [ref_no |-> ref, product_barcode |-> sku, ibl_add_time |-> ibl,
     warehouse_operation_time |-> wot, quantity |-> qty,
     operation_type |-> op, customer_code |-> cust, warehouse_id |-> wh]

RecA == Raw("A1", "X", StrOk(0), StrOk(0), StrOk(10), "shangjia", Some("C1"), 13)
RecA2 == Raw("A1", "X", StrOk(0), StrOk(33), StrBad, "dingdan", None, 13)
RecN == Raw("A1", "X", StrZero, StrOk(8), RawInt(10), "shangjia", None, 13)
RecO == Raw("A2", "Y", StrOk(8), StrOk(8), StrOk(5), "pandian", Some("C1"), 13)
RecB == Raw("A2", "Y", StrOk(8), StrEmpty, StrBad, "fba", Some("C1"), 5)
RecX == Raw("A3", "Y", RawInt(5), StrOk(8), StrOk(1), "shangjia", Some("C1"), 5)

RawRecords == {RecA, RecA2, RecN, RecO, RecB, RecX}

\* the record raises while its values are built (sync_inventory_logs 159-177)
NormalizeRaises(raw) ==
    ParseDtRaises(raw.ibl_add_time) \/ ParseDtRaises(raw.warehouse_operation_time)

\* values = dict(...) of sync_inventory_logs
Normalize(raw) ==
    [ref_no |-> raw.ref_no,
     product_barcode |-> raw.product_barcode,
     warehouse_id |-> WarehouseStr(raw.warehouse_id),
     quantity |-> _safe_int(raw.quantity),
     ibl_add_time |-> _parse_dt(raw.ibl_add_time),
     customer_code |-> raw.customer_code,
     warehouse_operation_time |-> _parse_dt(raw.warehouse_operation_time),
     operation_type |-> raw.operation_type,
     direction |-> _classify_direction(raw.operation_type)]

(***************************************************************************)
(* Bags                                                                    *)
(***************************************************************************)
BagAdd(B, e) == B (+) SetToBag({e})
BagRemoveAll(B, S) == [e \in (DOMAIN B) \ S |-> B[e]]
BagSize(B) == BagCardinality(B)

(***************************************************************************)
(* INSERT ... ON CONFLICT (ref_no, product_barcode, ibl_add_time)          *)
(* DO UPDATE.  The conflict target is the unique index on the triple; a    *)
(* row whose ibl_add_time is NULL never conflicts, because NULLs are       *)
(* distinct in a unique index.                                             *)
(***************************************************************************)
Conflicts(row, values) ==
    /\ row.ref_no = values.ref_no
    /\ row.product_barcode = values.product_barcode
    /\ values.ibl_add_time # None
    /\ row.ibl_add_time = values.ibl_add_time

Upsert(table, values) ==
    LET hit == {row \in DOMAIN table : Conflicts(row, values)}
    IN  BagAdd(BagRemoveAll(table, hit), values)

(***************************************************************************)
(* The aggregation INSERT ... SELECT of rebuild_daily_summary and          *)
(* build_summary.                                                          *)
(***************************************************************************)
RECURSIVE SumF(_, _)
\* sum of f[e], each row e of DOMAIN f counted with its multiplicity in bag B
SumF(B, f) ==
    IF DOMAIN f = {} THEN 0
    ELSE LET e == CHOOSE x \in DOMAIN f : TRUE
         IN  B[e] * f[e] + SumF(B, [x \in (DOMAIN f) \ {e} |-> f[x]])

\* COUNT(il.quantity) where COUNT(il.id) is meant: NULL quantities are skipped
CountRows_NonNull(B, S) == SumF(B, [e \in {x \in S : x.quantity # None} |-> 1])

\* COUNT(il.id) over the rows S of B
CountRows(B, S) == SumF(B, [e \in S |-> 1])

\* SUM(il.quantity) over the rows S of B: NULLs are skipped, the sum of no
\* value is NULL
SumQty(B, S) ==
    LET nn == {e \in S : e.quantity # None}
    IN  IF nn = {} THEN None ELSE Some(SumF(B, [e \in nn |-> e.quantity[1]]))

\* COALESCE(p.volume_cbm, 0) of the LEFT JOIN on product_barcode
\* (products.product_barcode is unique: at most one row joins)
UnitVolume(prods, sku) ==
    LET m == {p \in prods : p.product_barcode = sku /\ p.volume_cbm # None}
    IN  IF m = {} THEN 0 ELSE (CHOOSE p \in m : TRUE).volume_cbm[1]

\* SUM(il.quantity * COALESCE(p.volume_cbm, 0))
SumVol(B, S, prods) ==
    LET nn == {e \in S : e.quantity # None}
    IN  IF nn = {} THEN None
        ELSE Some(SumF(B, [e \in nn |-> e.quantity[1] * UnitVolume(prods, e.product_barcode)]))

DateOf(dt) == dt \div 24

\* a selection that keeps the events of every direction
Selected_AllDirections(events) ==
    {e \in DOMAIN events : e.warehouse_operation_time # None}

\* WHERE il.direction IN ('inbound','outbound') AND il.warehouse_operation_time IS NOT NULL
Selected(events) ==
    {e \in DOMAIN events : /\ e.direction \in {"inbound", "outbound"}
                           /\ e.warehouse_operation_time # None}

Coalesce(opt, dflt) == IF opt = None THEN dflt ELSE opt[1]

\* a grouping that puts the events without customer under the empty string
GroupKey_EmptySentinel(e) ==
    <<DateOf(e.warehouse_operation_time[1]), e.warehouse_id, e.direction,
      Coalesce(e.customer_code, "")>>

GroupKey(e) ==
    <<DateOf(e.warehouse_operation_time[1]), e.warehouse_id, e.direction,
      Coalesce(e.customer_code, "UNKNOWN")>>

Aggregate(events, prods) ==
    LET sel == Selected(events)
        keys == {GroupKey(e) : e \in sel}
        grp(k) == {e \in sel : GroupKey(e) = k}
    IN  {[summary_date |-> k[1], warehouse_id |-> k[2], direction |-> k[3],
          customer_code |-> k[4],
          event_count |-> CountRows(events, grp(k)),
          total_qty |-> SumQty(events, grp(k)),
          total_volume_cbm |-> SumVol(events, grp(k), prods),
          unique_skus |-> Cardinality({e.product_barcode : e \in grp(k)})] : k \in keys}

\* the rows the INSERT adds to the table
InsertSummary(table, events, prods) == table (+) SetToBag(Aggregate(events, prods))


(***************************************************************************)
(* The analytics reads (get-or-compute-and-store around one query).        *)
(***************************************************************************)
\* round(x, 4) of a volume: x is kept in cm3 (1e-6 m3), the result in 1e-4 m3
Round4(x) ==
    LET q == x \div 100
        r == x % 100
    IN  IF r < 50 THEN q
        ELSE IF r > 50 THEN q + 1
        ELSE IF q % 2 = 0 THEN q ELSE q + 1

\* SUM(column) over summary rows S of the bag B; NULL when every value is NULL
SumCol(B, S, col) ==
    LET nn == {e \in S : e[col] # None}
    IN  IF nn = {} THEN None ELSE Some(SumF(B, [e \in nn |-> e[col][1]]))

RECURSIVE SortedSeq(_)
\* the elements of a set of integers in increasing order (ORDER BY period)
SortedSeq(S) ==
    IF S = {} THEN <<>>
    ELSE LET m == CHOOSE x \in S : \A y \in S : x <= y
         IN  <<m>> \o SortedSeq(S \ {m})

\* invlog_volume with granularity "day" and no filter
invlog_volume(table) ==
    [dir \in {DIR_INBOUND, DIR_OUTBOUND} |->
        LET rows == {e \in DOMAIN table : e.direction = dir}
            periods == SortedSeq({e.summary_date : e \in rows})
            of(p) == {e \in rows : e.summary_date = p}
        IN  [i \in 1..Len(periods) |->
                [period |-> periods[i],
                 event_count |-> SumF(table, [e \in of(periods[i]) |-> e.event_count]),
                 total_qty |-> Coalesce(SumCol(table, of(periods[i]), "total_qty"), 0),
                 total_volume_cbm |->
                     Round4(Coalesce(SumCol(table, of(periods[i]), "total_volume_cbm"), 0)),
                 unique_skus |-> SumF(table, [e \in of(periods[i]) |-> e.unique_skus])]]]

ReadOps == {"volume"}

QueryValue(op, table) == invlog_volume(table)

\* a cache that still returns an entry at the instant of its expiry
CacheLive_Inclusive(c, key, t) == {e \in c : e.key = key /\ e.expiry >= t}

\* _cache_get: the entry under key when it has not expired
CacheLive(c, key, t) == {e \in c : e.key = key /\ e.expiry > t}

\* _cache_set (the purge of expired entries starts above 500 entries,
\* which the key space of the model never reaches)
_cache_set(c, key, value, src, t) ==
    {e \in c : e.key # key} \cup
        {[key |-> key, expiry |-> t + CACHE_TTL_SECONDS, value |-> value, src |-> src]}

(***************************************************************************)
(* Initial state: empty tables, no run, products as a product sync left    *)
(* them.                                                                   *)
(***************************************************************************)
ProductTables ==
    { {},
      {[product_barcode |-> "X", volume_cbm |-> Some(1250)],
       [product_barcode |-> "Y", volume_cbm |-> None]} }

ChunkerIdle == [pc |-> "idle", start |-> 0, end |-> 0, cursor |-> 0, page |-> 0,
                chunks |-> <<>>, reqs |-> <<>>]

PagerIdle == [pc |-> "idle", total |-> 0, page |-> 0, all_data |-> <<>>, reqs |-> <<>>,
              empty |-> FALSE]

QueryIdle == [op |-> "", f |-> [date_from |-> <<>>, date_to |-> <<>>,
                                warehouse_id |-> <<>>, customer_code |-> <<>>],
              result |-> <<>>, calls |-> 0]

NoLog == [status |-> "none", records_synced |-> 0, error_message |-> <<>>]

ProductSyncIdle == [pc |-> "idle", raw_products |-> <<>>, count |-> 0, log |-> NoLog,
                    by |-> ""]

BgIdle == [response |-> <<>>, pending |-> 0, task |-> "none", escaped |-> FALSE,
           triggers |-> 0]

DailyIdle == [pc |-> "idle", utcnow |-> 0, start_time |-> 0, end_time |-> 0,
              log_count |-> 0, refreshed |-> FALSE, result |-> <<>>]

NoRead == [key |-> "", value |-> <<>>, src |-> 0, start |-> 0]

\* no run, no script, no read, no fetch in progress
Idle ==
    /\ cache = {}
    /\ now = 0
    /\ logs = <<>>
    /\ pc = "idle"
    /\ raw_logs = <<>>
    /\ idx = 1
    /\ count = 0
    /\ err = ""
    /\ hist = <<>>
    /\ snap = [store |-> EmptyBag, rollup |-> EmptyBag, rb |-> EmptyBag, ext |-> FALSE,
               sext |-> FALSE]
    /\ spc = "idle"
    /\ rpc = "idle"
    /\ rd = NoRead
    /\ ret = <<>>
    /\ fetched = 0
    /\ ver = [n |-> 0, rebuilt |-> 0, scripts |-> 0]
    /\ chunker = ChunkerIdle
    /\ pager = PagerIdle
    /\ psync = ProductSyncIdle
    /\ bg = BgIdle
    /\ daily = DailyIdle

Init ==
    /\ Idle
    /\ store = EmptyBag
    /\ sess = EmptyBag
    /\ rollup = EmptyBag
    /\ products \in ProductTables
    /\ query = QueryIdle

cur == Len(logs)

(***************************************************************************)
(* sync_inventory_logs                                                     *)
(***************************************************************************)
\* lines 138-140: the audit record is created and committed
StartRun ==
    /\ pc \in {"idle", "returned", "raised"}
    /\ Len(logs) < MaxRuns
    /\ logs' = Append(logs, [status |-> "running", records_synced |-> 0,
                             error_message |-> None, finished_at |-> None])
    /\ pc' = "fetch"
    /\ raw_logs' = <<>>
    /\ idx' = 1
    /\ count' = 0
    /\ err' = ""
    /\ hist' = <<>>
    /\ snap' = [store |-> store, rollup |-> rollup, rb |-> EmptyBag, ext |-> FALSE,
                sext |-> snap.sext]
    /\ UNCHANGED <<store, sess, rollup, products, cache, now, spc, rpc, rd, ret,
                   ver, fetched, side>>

\* one page request of get_inventory_logs_chunked answers with a record of S
FetchPageFrom(S) ==
    /\ pc = "fetch"
    /\ fetched < MaxFetch
    /\ \E r \in S : raw_logs' = Append(raw_logs, r)
    /\ fetched' = fetched + 1
    /\ UNCHANGED <<store, sess, rollup, products, cache, now, logs, pc, idx, count,
                   err, hist, snap, spc, rpc, rd, ret, ver, side>>

FetchPage == FetchPageFrom(RawRecords)

\* the fetch returns (line 149); the loop of line 153 starts
FetchDone ==
    /\ pc = "fetch"
    /\ pc' = IF Len(raw_logs) = 0 THEN "finalize" ELSE "upsert"
    /\ UNCHANGED <<store, sess, rollup, products, cache, now, logs, raw_logs, idx,
                   count, err, hist, snap, spc, rpc, rd, ret, ver, fetched, side>>

\* what an exception raised inside the try block does: control goes to
\* the handler of line 206
Raise(where) ==
    /\ err' = where
    /\ pc' = "except"

RECURSIVE IngestAll(_, _)
\* the event table after the records of raws were upserted in order
IngestAll(table, raws) ==
    IF raws = <<>> THEN table
    ELSE IngestAll(Upsert(table, Normalize(Head(raws))), Tail(raws))

\* a page failure that leaves the pages fetched so far applied
FetchFail_Partial ==
    /\ pc = "fetch"
    /\ Raise("fetch")
    /\ sess' = IngestAll(sess, raw_logs)
    /\ UNCHANGED <<store, rollup, products, cache, now, logs, raw_logs, idx, count,
                   hist, snap, spc, rpc, rd, ret, ver, fetched, side>>

\* a page request raises (WMSClient._request, lines 29-32)
FetchFail ==
    /\ pc = "fetch"
    /\ Raise("fetch")
    /\ UNCHANGED <<store, sess, rollup, products, cache, now, logs, raw_logs, idx,
                   count, hist, snap, spc, rpc, rd, ret, ver, fetched, side>>

\* lines 155-190 for one record
UpsertRecord ==
    /\ pc = "upsert"
    /\ LET raw == raw_logs[idx] IN
         IF NormalizeRaises(raw)
         THEN /\ Raise("upsert")
              /\ UNCHANGED <<sess, idx, count>>
         ELSE /\ sess' = Upsert(sess, Normalize(raw))
              /\ count' = count + 1
              /\ idx' = idx + 1
              /\ pc' = IF idx % BATCH = 0 \/ idx = Len(raw_logs) THEN "commit" ELSE "upsert"
              /\ err' = err
    /\ UNCHANGED <<store, rollup, products, cache, now, logs, raw_logs, hist, snap,
                   spc, rpc, rd, ret, ver, fetched, side>>

\* a batch whose rows stay in the open transaction: no checkpoint
BatchCommit_NoCheckpoint ==
    /\ pc = "commit"
    /\ hist' = Append(hist, "batch_commit")
    /\ pc' = IF idx > Len(raw_logs) THEN "finalize" ELSE "upsert"
    /\ UNCHANGED <<store, sess, rollup, products, cache, now, logs, raw_logs, idx, count,
                   err, snap, spc, rpc, rd, ret, ver, fetched, side>>

\* line 192: the batch is committed
BatchCommit ==
    /\ pc = "commit"
    /\ store' = sess
    /\ hist' = Append(hist, "batch_commit")
    /\ pc' = IF idx > Len(raw_logs) THEN "finalize" ELSE "upsert"
    /\ UNCHANGED <<sess, rollup, products, cache, now, logs, raw_logs, idx, count,
                   err, snap, spc, rpc, rd, ret, ver, fetched, side>>

\* line 192 raises: the open transaction is either rolled back or left open
BatchCommitFail ==
    /\ pc = "commit"
    /\ sess' \in {store, sess}
    /\ Raise("commit")
    /\ UNCHANGED <<store, rollup, products, cache, now, logs, raw_logs, idx, count,
                   hist, snap, spc, rpc, rd, ret, ver, fetched, side>>

\* a run that returns after line 198 without the call of line 202
Finalize_NoRebuild ==
    /\ pc = "finalize"
    /\ logs' = [logs EXCEPT ![cur] = [status |-> "success", records_synced |-> count,
                                      error_message |-> None, finished_at |-> Some(now)]]
    /\ store' = sess
    /\ hist' = Append(hist, "final_commit")
    /\ pc' = "returned"
    /\ UNCHANGED <<sess, rollup, products, cache, now, raw_logs, idx, count, err,
                   snap, spc, rpc, rd, ret, ver, fetched, side>>

\* lines 195-198: the audit record is finalized as success
Finalize ==
    /\ pc = "finalize"
    /\ logs' = [logs EXCEPT ![cur] = [status |-> "success", records_synced |-> count,
                                      error_message |-> None, finished_at |-> Some(now)]]
    /\ store' = sess
    /\ hist' = Append(hist, "final_commit")
    /\ pc' = "rb_delete"
    /\ snap' = [snap EXCEPT !.rb = rollup, !.ext = FALSE]
    /\ UNCHANGED <<sess, rollup, products, cache, now, raw_logs, idx, count, err,
                   spc, rpc, rd, ret, ver, fetched, side>>

\* the commit of line 198 raises
FinalizeFail ==
    /\ pc = "finalize"
    /\ Raise("final_commit")
    /\ UNCHANGED <<store, sess, rollup, products, cache, now, logs, raw_logs, idx,
                   count, hist, snap, spc, rpc, rd, ret, ver, fetched, side>>

\* a rebuild that patches the table instead of clearing it first
RebuildDelete_Keep ==
    /\ pc = "rb_delete"
    /\ ver' = [ver EXCEPT !.n = ver.n + 1]
    /\ hist' = Append(hist, "rb_delete")
    /\ pc' = "rb_insert"
    /\ snap' = [snap EXCEPT !.sext = TRUE]
    /\ UNCHANGED <<store, sess, rollup, products, cache, now, logs, raw_logs, idx,
                   count, err, spc, rpc, rd, ret, fetched, side>>

\* lines 224-225: DELETE FROM invlog_daily_summary, commit
RebuildDelete ==
    /\ pc = "rb_delete"
    /\ rollup' = EmptyBag
    /\ ver' = [ver EXCEPT !.n = ver.n + 1]
    /\ hist' = Append(hist, "rb_delete")
    /\ pc' = "rb_insert"
    /\ snap' = [snap EXCEPT !.sext = TRUE]
    /\ UNCHANGED <<store, sess, products, cache, now, logs, raw_logs, idx, count,
                   err, spc, rpc, rd, ret, fetched, side>>

\* the DELETE of line 224 raises
RebuildDeleteFail ==
    /\ pc = "rb_delete"
    /\ Raise("rebuild_delete")
    /\ UNCHANGED <<store, sess, rollup, products, cache, now, logs, raw_logs, idx,
                   count, hist, snap, spc, rpc, rd, ret, ver, fetched, side>>

\* lines 228-251: INSERT ... SELECT, commit
RebuildInsert ==
    /\ pc = "rb_insert"
    /\ rollup' = InsertSummary(rollup, sess, products)
    /\ ver' = [ver EXCEPT !.n = ver.n + 1]
    /\ hist' = Append(hist, "rb_insert")
    /\ pc' = "rb_clear"
    /\ snap' = [snap EXCEPT !.sext = TRUE]
    /\ UNCHANGED <<store, sess, products, cache, now, logs, raw_logs, idx, count,
                   err, spc, rpc, rd, ret, fetched, side>>

\* the aggregation query of line 228 raises
RebuildInsertFail ==
    /\ pc = "rb_insert"
    /\ Raise("rebuild_insert")
    /\ UNCHANGED <<store, sess, rollup, products, cache, now, logs, raw_logs, idx,
                   count, hist, snap, spc, rpc, rd, ret, ver, fetched, side>>

\* lines 254-258 and the return of line 204
RebuildClear ==
    /\ pc = "rb_clear"
    /\ cache' = {}
    /\ ver' = [ver EXCEPT !.rebuilt = ver.n]
    /\ hist' = Append(hist, "cache_clear")
    /\ pc' = "returned"
    /\ UNCHANGED <<store, sess, rollup, products, now, logs, raw_logs, idx, count,
                   err, snap, spc, rpc, rd, ret, fetched, side>>

\* a handler that re-raises without finalizing the audit record
ExceptHandler_Silent ==
    /\ pc = "except"
    /\ store' = sess
    /\ pc' = "raised"
    /\ UNCHANGED <<sess, rollup, products, cache, now, logs, raw_logs, idx, count,
                   err, hist, snap, spc, rpc, rd, ret, ver, fetched, side>>

\* lines 206-212: the handler finalizes the audit record as failed; its
\* commit also commits what the session had executed and not committed
ExceptHandler ==
    /\ pc = "except"
    /\ logs' = [logs EXCEPT ![cur] = [status |-> "failed", records_synced |-> @.records_synced,
                                      error_message |-> Some(err), finished_at |-> Some(now)]]
    /\ store' = sess
    /\ pc' = "raised"
    /\ UNCHANGED <<sess, rollup, products, cache, now, raw_logs, idx, count, err,
                   hist, snap, spc, rpc, rd, ret, ver, fetched, side>>

SyncTail ==
    \/ FetchDone \/ FetchFail
    \/ UpsertRecord \/ BatchCommit \/ BatchCommitFail
    \/ Finalize \/ FinalizeFail
    \/ RebuildDelete \/ RebuildDeleteFail
    \/ RebuildInsert \/ RebuildInsertFail \/ RebuildClear
    \/ ExceptHandler

SyncStep == FetchPage \/ SyncTail

(***************************************************************************)
(* build_daily_summary.py, run as a separate process on the same database  *)
(***************************************************************************)
\* lines 30-33: DELETE, commit
ScriptDelete ==
    /\ spc = "idle"
    /\ ver.scripts < MaxScripts
    /\ rollup' = EmptyBag
    /\ ver' = [ver EXCEPT !.n = ver.n + 1]
    /\ spc' = "cleared"
    /\ snap' = [snap EXCEPT !.ext = TRUE, !.sext = FALSE]
    /\ UNCHANGED <<store, sess, products, cache, now, logs, pc, raw_logs, idx,
                   count, err, hist, rpc, rd, ret, fetched, side>>

\* lines 39-67: INSERT ... SELECT, commit
ScriptInsert ==
    /\ spc = "cleared"
    /\ rollup' = InsertSummary(rollup, store, products)
    /\ ver' = [ver EXCEPT !.n = ver.n + 1, !.scripts = ver.scripts + 1]
    /\ spc' = "idle"
    /\ snap' = [snap EXCEPT !.ext = TRUE]
    /\ UNCHANGED <<store, sess, products, cache, now, logs, pc, raw_logs, idx,
                   count, err, hist, rpc, rd, ret, fetched, side>>

ScriptStep == ScriptDelete \/ ScriptInsert

(***************************************************************************)
(* One analytics read: _cache_get, the query, _cache_set                   *)
(* (invlog_volume lines 121-159; the other reads have the same shape).     *)
(***************************************************************************)
\* lines 121-124 and _cache_get: a live entry is returned, an expired one
\* is removed
ReadStart ==
    /\ rpc = "idle"
    /\ \E op \in ReadOps :
         LET live == CacheLive(cache, op, now) IN
         IF live # {}
         THEN /\ \E e \in live :
                    ret' = Some([key |-> op, value |-> e.value, src |-> e.src,
                                 start |-> ver.rebuilt, hit |-> TRUE])
              /\ UNCHANGED <<cache, rpc, rd>>
         ELSE /\ cache' = {e \in cache : e.key # op}
              /\ rpc' = "query"
              /\ rd' = [key |-> op, value |-> <<>>, src |-> 0, start |-> ver.rebuilt]
              /\ ret' = ret
    /\ UNCHANGED <<store, sess, rollup, products, now, logs, pc, raw_logs, idx,
                   count, err, hist, snap, spc, ver, fetched, side>>

\* line 146: the query reads the committed summary table
ReadQuery ==
    /\ rpc = "query"
    /\ rd' = [rd EXCEPT !.value = QueryValue(rd.key, rollup), !.src = ver.n]
    /\ rpc' = "store"
    /\ UNCHANGED <<store, sess, rollup, products, cache, now, logs, pc, raw_logs,
                   idx, count, err, hist, snap, spc, ret, ver, fetched, side>>

\* lines 158-159: _cache_set and return
ReadStore ==
    /\ rpc = "store"
    /\ cache' = _cache_set(cache, rd.key, rd.value, rd.src, now)
    /\ ret' = Some([key |-> rd.key, value |-> rd.value, src |-> rd.src,
                    start |-> rd.start, hit |-> FALSE])
    /\ rpc' = "idle"
    /\ rd' = NoRead
    /\ UNCHANGED <<store, sess, rollup, products, now, logs, pc, raw_logs, idx,
                   count, err, hist, snap, spc, ver, fetched, side>>

ReadStep == ReadStart \/ ReadQuery \/ ReadStore

\* time passes
Tick ==
    /\ \E t \in Instants : t > now /\ now' = t
    /\ UNCHANGED <<store, sess, rollup, products, cache, logs, pc, raw_logs, idx,
                   count, err, hist, snap, spc, rpc, rd, ret, ver, fetched, side>>

(***************************************************************************)
(* WMSClient.get_inventory_logs_chunked (called at sync_inventory_logs     *)
(* 143-148): the span is cut into chunks of at most six months, each       *)
(* chunk is fetched page by page.  Instants are months.                    *)
(***************************************************************************)
MAX_CHUNK_MONTHS == 6

Min(a, b) == IF a <= b THEN a ELSE b

\* a chunk that always spans the full width
ChunkEnd_NoClamp(cursor, end) == cursor + MAX_CHUNK_MONTHS

\* the end of the chunk that starts at cursor
ChunkEnd(cursor, end) == Min(cursor + MAX_CHUNK_MONTHS, end)

\* the call: start_time, end_time
ChunkedCall ==
    /\ chunker.pc = "idle"
    /\ \E s \in {0, 1}, e \in 0..MaxSpan :
         /\ s <= e
         /\ chunker' = [ChunkerIdle EXCEPT !.pc = "next", !.start = s, !.end = e,
                                           !.cursor = s]
    /\ UNCHANGED notChunker

\* the next chunk range is opened, or the span is exhausted and the call
\* returns
ChunkRequest ==
    /\ chunker.pc = "next"
    /\ IF chunker.cursor < chunker.end
       THEN chunker' = [chunker EXCEPT
                !.pc = "pages", !.page = 1,
                !.chunks = Append(@, [from |-> chunker.cursor,
                                      to |-> ChunkEnd(chunker.cursor, chunker.end)])]
       ELSE chunker' = [chunker EXCEPT !.pc = "done"]
    /\ UNCHANGED notChunker

\* one page of the open chunk is requested; the source tells whether the
\* chunk's total is reached, and then the cursor moves to the chunk's end
ChunkPage ==
    /\ chunker.pc = "pages"
    /\ \E last \in BOOLEAN :
         /\ chunker.page = MaxPages => last
         /\ chunker' = [chunker EXCEPT
                !.reqs = Append(@, [chunk |-> Len(chunker.chunks), page |-> chunker.page]),
                !.page = IF last THEN 0 ELSE @ + 1,
                !.pc = IF last THEN "next" ELSE "pages",
                !.cursor = IF last THEN chunker.chunks[Len(chunker.chunks)].to ELSE @]
    /\ UNCHANGED notChunker

\* the result is handed to the caller; the client is ready for a new call
ChunkedReturn ==
    /\ chunker.pc = "done"
    /\ chunker' = ChunkerIdle
    /\ UNCHANGED notChunker

ChunkNext == ChunkedCall \/ ChunkRequest \/ ChunkPage \/ ChunkedReturn

\* the chunked fetch alone
ChunkSpec == Init /\ [][ChunkNext]_vars

(***************************************************************************)
(* WMSClient.get_all_products (wms_client.py 179-192).  The source holds   *)
(* records 1..total and reports total with every page; page p carries the  *)
(* records (p-1)*pageSize+1 .. p*pageSize that exist, or fewer of them.    *)
(***************************************************************************)
\* the records of page p of a source that holds total records
PageSlice(p, total) ==
    LET lo == (p - 1) * DEFAULT_PAGE_SIZE + 1
        hi == Min(p * DEFAULT_PAGE_SIZE, total)
    IN  [i \in 1..(IF hi >= lo THEN hi - lo + 1 ELSE 0) |-> lo + i - 1]

\* a loop that asks for the same page again
NextPage_Same(p) == p

\* line 191: page += 1
NextPage(p) == p + 1

\* lines 181-182: all_data = [], page = 1
GetAllProducts ==
    /\ pager.pc = "idle"
    /\ \E n \in 0..MaxTotal :
         pager' = [PagerIdle EXCEPT !.pc = "request", !.total = n, !.page = 1]
    /\ UNCHANGED notPager

\* a loop that goes on after an empty page
ProductPage_NoEmptyStop ==
    /\ pager.pc = "request"
    /\ LET slice == PageSlice(pager.page, pager.total) IN
       \E k \in 0..Len(slice) :
         LET data == SubSeq(slice, 1, k)
             all == pager.all_data \o data
         IN  pager' = [pager EXCEPT
                 !.reqs = Append(@, pager.page),
                 !.all_data = all,
                 !.empty = (data = <<>>),
                 !.pc = IF Len(all) >= pager.total THEN "returned" ELSE "request",
                 !.page = IF Len(all) >= pager.total THEN @ ELSE NextPage(@)]
    /\ UNCHANGED notPager

\* lines 184-191: one trip of the loop; the page answers with the first k
\* records of its slice
ProductPage ==
    /\ pager.pc = "request"
    /\ LET slice == PageSlice(pager.page, pager.total) IN
       \E k \in 0..Len(slice) :
         LET data == SubSeq(slice, 1, k)
             all == pager.all_data \o data
         IN  pager' = [pager EXCEPT
                 !.reqs = Append(@, pager.page),
                 !.all_data = all,
                 !.empty = (data = <<>>),
                 !.pc = IF Len(all) >= pager.total \/ data = <<>>
                        THEN "returned" ELSE "request",
                 !.page = IF Len(all) >= pager.total \/ data = <<>>
                          THEN @ ELSE NextPage(@)]
    /\ UNCHANGED notPager

\* the page request raises (WMSClient._request, lines 29-32)
ProductPageFail ==
    /\ pager.pc = "request"
    /\ pager' = [pager EXCEPT !.pc = "raised", !.reqs = Append(@, pager.page)]
    /\ UNCHANGED notPager

\* line 192: return all_data; the client is ready for the next call
ProductsReturn ==
    /\ pager.pc \in {"returned", "raised"}
    /\ pager' = PagerIdle
    /\ UNCHANGED notPager

PageNext == GetAllProducts \/ ProductPage \/ ProductPageFail \/ ProductsReturn

\* the paginated product fetch alone
PageSpec == Init /\ [][PageNext]_vars

\* the same with page requests that are answered or fail in the end (the
\* HTTP client has a request timeout)
PageFairSpec == PageSpec /\ WF_vars(ProductPage \/ ProductPageFail)

(***************************************************************************)
(* The analytics queries with their filters (analytics.py 71-490).  A      *)
(* filter is [date_from, date_to, warehouse_id, customer_code], each an    *)
(* optional value; date_from and date_to are datetimes.                    *)
(***************************************************************************)
Filter(df, dt, wh, cc) ==
    [date_from |-> df, date_to |-> dt, warehouse_id |-> wh, customer_code |-> cc]

NoFilter == Filter(None, None, None, None)

BothDirections == {DIR_INBOUND, DIR_OUTBOUND}

\* _summary_filter: the rows of the summary table that pass
_summary_filter(table, date_from, date_to, warehouse_id, customer_code, direction) ==
    {r \in DOMAIN table :
        /\ date_from # None => r.summary_date >= DateOf(date_from[1])
        /\ date_to # None => r.summary_date <= DateOf(date_to[1])
        /\ warehouse_id # None => r.warehouse_id = warehouse_id[1]
        /\ customer_code # None => r.customer_code = customer_code[1]
        /\ direction # None => r.direction = direction[1]}

\* _invlog_base_filter: the rows of the event table that pass (a comparison
\* with a NULL warehouse_operation_time or customer_code is not true)
_invlog_base_filter(events, date_from, date_to, warehouse_id, customer_code) ==
    {e \in DOMAIN events :
        /\ date_from # None => /\ e.warehouse_operation_time # None
                               /\ e.warehouse_operation_time[1] >= date_from[1]
        /\ date_to # None => /\ e.warehouse_operation_time # None
                             /\ e.warehouse_operation_time[1] <= date_to[1]
        /\ warehouse_id # None => e.warehouse_id = warehouse_id[1]
        /\ customer_code # None => e.customer_code = customer_code}

\* round half to even of num / den, den > 0
RoundDiv(num, den) ==
    LET q == num \div den
        r == num % den
    IN  IF 2 * r < den THEN q
        ELSE IF 2 * r > den THEN q + 1
        ELSE IF q % 2 = 0 THEN q ELSE q + 1

\* round(x, 2) of a volume: x in cm3, the result in 1e-2 m3
Round2(x) == RoundDiv(x, 10000)

RECURSIVE Pow10(_)
Pow10(n) == IF n = 0 THEN 1 ELSE 10 * Pow10(n - 1)

RECURSIVE Decimals(_, _, _)
\* <<the first n decimal digits of r / den read as a number, the remainder
\* left after them>>, for 0 <= r < den
Decimals(r, den, n) ==
    IF n = 0 THEN <<0, r>>
    ELSE LET rest == Decimals((10 * r) % den, den, n - 1)
         IN  <<((10 * r) \div den) * Pow10(n - 1) + rest[1], rest[2]>>

\* round(num / den, 4) in units of 1e-4, num >= 0, den > 0
RoundRatio4(num, den) ==
    LET q == num \div den
        dec == Decimals(num % den, den, 4)
        f == q * 10000 + dec[1]
    IN  IF 2 * dec[2] < den THEN f
        ELSE IF 2 * dec[2] > den THEN f + 1
        ELSE IF f % 2 = 0 THEN f ELSE f + 1

\* invlog_volume with granularity "day"
invlog_volume_filtered(table, f) ==
    [dir \in BothDirections |->
        LET rows == _summary_filter(table, f.date_from, f.date_to, f.warehouse_id,
                                    f.customer_code, Some(dir))
            periods == SortedSeq({e.summary_date : e \in rows})
            of(p) == {e \in rows : e.summary_date = p}
        IN  [i \in 1..Len(periods) |->
                [period |-> periods[i],
                 event_count |-> SumF(table, [e \in of(periods[i]) |-> e.event_count]),
                 total_qty |-> Coalesce(SumCol(table, of(periods[i]), "total_qty"), 0),
                 total_volume_cbm |->
                     Round4(Coalesce(SumCol(table, of(periods[i]), "total_volume_cbm"), 0)),
                 unique_skus |-> SumF(table, [e \in of(periods[i]) |-> e.unique_skus])]]]

\* 0.001 m3, the floor of the average inventory, in cm3
AVG_FLOOR == 1000

Max(a, b) == IF a >= b THEN a ELSE b

\* twice an average inventory that is not floored
AvgInventory2_NoFloor(beginning, ending) == beginning + ending

\* line 236: twice max((beginning + ending) / 2, 0.001)
AvgInventory2(beginning, ending) == Max(beginning + ending, 2 * AVG_FLOOR)

\* lines 237 and 247: round(total_outbound_vol / avg_inventory_vol, 4), or 0
TurnoverRate(out_vol, avg2) == IF avg2 > 0 THEN RoundRatio4(2 * out_vol, avg2) ELSE 0

\* line 186: in_period
InPeriod(r, d_from) == d_from # None => r.summary_date >= DateOf(d_from[1])

\* a pre-period that includes the first day of the period
PrePeriod_Inclusive(r, d_from) == d_from # None /\ r.summary_date <= DateOf(d_from[1])

\* line 187: pre_period
PrePeriod(r, d_from) == d_from # None /\ r.summary_date < DateOf(d_from[1])

\* invlog_turnover, lines 183-249; avg2 is twice the average inventory
invlog_turnover(table, f) ==
    LET d_from == f.date_from
        rows == {r \in _summary_filter(table, None, f.date_to, f.warehouse_id,
                                       f.customer_code, None) :
                    r.direction \in BothDirections}
        in_period(r) == InPeriod(r, d_from)
        pre_period(r) == PrePeriod(r, d_from)
        sum(dir, P(_), col) ==
            Coalesce(SumCol(table, {r \in rows : r.direction = dir /\ P(r)}, col), 0)
        in_vol == sum(DIR_INBOUND, in_period, "total_volume_cbm")
        out_vol == sum(DIR_OUTBOUND, in_period, "total_volume_cbm")
        beginning == sum(DIR_INBOUND, pre_period, "total_volume_cbm")
                       - sum(DIR_OUTBOUND, pre_period, "total_volume_cbm")
        ending == beginning + in_vol - out_vol
        avg2 == AvgInventory2(beginning, ending)
    IN  [total_inbound_qty |-> sum(DIR_INBOUND, in_period, "total_qty"),
         total_outbound_qty |-> sum(DIR_OUTBOUND, in_period, "total_qty"),
         total_inbound_vol |-> Round4(in_vol),
         total_outbound_vol |-> Round4(out_vol),
         beginning_inventory_vol |-> Round4(beginning),
         ending_inventory_vol |-> Round4(ending),
         average_inventory_vol |-> RoundDiv(avg2, 200),
         turnover_rate |-> TurnoverRate(out_vol, avg2),
         days_in_period |-> IF f.date_from # None /\ f.date_to # None
                            THEN Some((f.date_to[1] - f.date_from[1]) \div 24)
                            ELSE None]

\* line 286: r.customer_code or "UNKNOWN"
CustomerLabel(c) == IF c = "" THEN "UNKNOWN" ELSE c

\* the rows of the grouped customer query, lines 270-282
CustomerRows(table, f) ==
    LET rows == {r \in _summary_filter(table, f.date_from, f.date_to, f.warehouse_id,
                                       None, None) : r.direction \in BothDirections}
        keys == {<<r.customer_code, r.direction>> : r \in rows}
        grp(k) == {r \in rows : r.customer_code = k[1] /\ r.direction = k[2]}
    IN  {[customer_code |-> k[1], direction |-> k[2],
          events |-> SumF(table, [r \in grp(k) |-> r.event_count]),
          qty |-> Coalesce(SumCol(table, grp(k), "total_qty"), 0),
          vol |-> Round4(Coalesce(SumCol(table, grp(k), "total_volume_cbm"), 0)),
          skus |-> SumF(table, [r \in grp(k) |-> r.unique_skus])] : k \in keys}

\* the dict entry that lines 287-297 leave for a customer label when, of
\* the query rows of each direction under that label, the row pick[dir]
\* came last (NoRow: the query has no row of that direction)
NoRow == [customer_code |-> "", direction |-> "", events |-> 0, qty |-> 0, vol |-> 0,
          skus |-> 0]

CustomerEntry(label, pick) ==
    [customer_code |-> label,
     inbound_events |-> pick[DIR_INBOUND].events, inbound_qty |-> pick[DIR_INBOUND].qty,
     inbound_vol |-> pick[DIR_INBOUND].vol, inbound_skus |-> pick[DIR_INBOUND].skus,
     outbound_events |-> pick[DIR_OUTBOUND].events, outbound_qty |-> pick[DIR_OUTBOUND].qty,
     outbound_vol |-> pick[DIR_OUTBOUND].vol, outbound_skus |-> pick[DIR_OUTBOUND].skus]

\* invlog_customer_breakdown: the results the loop of lines 285-297 can
\* leave.  The query has no ORDER BY; when two of its rows carry the same
\* label and direction, the one that comes later overwrites the other.
\* A result is the set of the entries of the returned list.
invlog_customer_breakdown(table, f) ==
    LET rows == CustomerRows(table, f)
        labels == {CustomerLabel(r.customer_code) : r \in rows}
        cand(l, d) ==
            LET c == {r \in rows : CustomerLabel(r.customer_code) = l /\ r.direction = d}
            IN  IF c = {} THEN {NoRow} ELSE c
        picks(l) == {p \in [BothDirections -> rows \cup {NoRow}] :
                        \A d \in BothDirections : p[d] \in cand(l, d)}
        entries(l) == {CustomerEntry(l, p) : p \in picks(l)}
    IN  {res \in SUBSET (UNION {entries(l) : l \in labels}) :
            /\ \A l \in labels : Cardinality({e \in res : e.customer_code = l}) = 1}

\* invlog_sku_analysis, lines 322-368, as the set of the entries of the
\* returned list (fewer rows than the limit)
invlog_sku_analysis(events, prods, f) ==
    LET rows == {e \in _invlog_base_filter(events, f.date_from, f.date_to,
                                           f.warehouse_id, f.customer_code) :
                    e.direction \in BothDirections}
        keys == {<<e.product_barcode, e.customer_code>> : e \in rows}
        grp(k) == {e \in rows : e.product_barcode = k[1] /\ e.customer_code = k[2]}
        qty(k, dir) ==
            SumF(events, [e \in {x \in grp(k) : x.direction = dir /\ x.quantity # None}
                            |-> e.quantity[1]])
        vol(k, dir) ==
            SumF(events, [e \in {x \in grp(k) : x.direction = dir /\ x.quantity # None}
                            |-> e.quantity[1] * UnitVolume(prods, e.product_barcode)])
    IN  {[product_barcode |-> k[1], customer_code |-> k[2],
          inbound_qty |-> qty(k, DIR_INBOUND),
          outbound_qty |-> qty(k, DIR_OUTBOUND),
          inbound_vol |-> Round4(vol(k, DIR_INBOUND)),
          outbound_vol |-> Round4(vol(k, DIR_OUTBOUND)),
          net_change_vol |-> Round4(vol(k, DIR_INBOUND) - vol(k, DIR_OUTBOUND)),
          total_events |-> CountRows(events, grp(k)),
          unit_cbm |-> UnitVolume(prods, k[1])] : k \in keys}

\* invlog_dashboard_summary, lines 389-426
invlog_dashboard_summary(table, prods, f) ==
    LET rows == {r \in _summary_filter(table, f.date_from, f.date_to, f.warehouse_id,
                                       None, None) : r.direction \in BothDirections}
        of(dir) == {r \in rows : r.direction = dir}
        part(dir) ==
            [total_events |-> SumF(table, [r \in of(dir) |-> r.event_count]),
             total_qty |-> Coalesce(SumCol(table, of(dir), "total_qty"), 0),
             total_vol |-> Round2(Coalesce(SumCol(table, of(dir), "total_volume_cbm"), 0)),
             unique_skus |-> SumF(table, [r \in of(dir) |-> r.unique_skus])]
    IN  [outbound |-> part(DIR_OUTBOUND),
         inbound |-> part(DIR_INBOUND),
         unique_customers |-> Cardinality({r.customer_code : r \in rows}),
         active_skus |-> 0,
         total_products |-> Cardinality(prods),
         active_warehouses |-> Cardinality({r.warehouse_id : r \in rows})]

\* invlog_warehouse_comparison, lines 448-488, as the set of the entries of
\* the returned list, without the name, timezone and capacity of a
\* warehouse
invlog_warehouse_comparison(table, f) ==
    LET rows == {r \in _summary_filter(table, f.date_from, f.date_to, None,
                                       f.customer_code, None) :
                    r.direction \in BothDirections}
        of(w, dir) == {r \in rows : r.warehouse_id = w /\ r.direction = dir}
        skus(w, dir) == SumF(table, [r \in of(w, dir) |-> r.unique_skus])
        custs(w, dir) == Cardinality({r.customer_code : r \in of(w, dir)})
    IN  {[warehouse_id |-> w,
          inbound_events |-> SumF(table, [r \in of(w, DIR_INBOUND) |-> r.event_count]),
          inbound_qty |-> Coalesce(SumCol(table, of(w, DIR_INBOUND), "total_qty"), 0),
          inbound_vol |->
              Round2(Coalesce(SumCol(table, of(w, DIR_INBOUND), "total_volume_cbm"), 0)),
          outbound_events |-> SumF(table, [r \in of(w, DIR_OUTBOUND) |-> r.event_count]),
          outbound_qty |-> Coalesce(SumCol(table, of(w, DIR_OUTBOUND), "total_qty"), 0),
          outbound_vol |->
              Round2(Coalesce(SumCol(table, of(w, DIR_OUTBOUND), "total_volume_cbm"), 0)),
          unique_skus |-> Max(skus(w, DIR_INBOUND), skus(w, DIR_OUTBOUND)),
          unique_customers |-> Max(custs(w, DIR_INBOUND), custs(w, DIR_OUTBOUND))]
         : w \in {r.warehouse_id : r \in rows}}

(***************************************************************************)
(* The six read operations served from tables that a run has left behind.  *)
(* The request (operation and filter) and the tables are drawn at the      *)
(* start; a call is _cache_get, the query and _cache_set in one step.      *)
(***************************************************************************)
QIn == Raw("B1", "Z", StrOk(1), StrOk(32), StrOk(100), "shangjia", Some("C1"), 13)
QOut == Raw("B2", "Z", StrOk(2), StrOk(32), StrOk(60), "dingdan", None, 13)
QPre == Raw("B3", "X", StrOk(3), StrOk(8), StrOk(10), "shangjia", Some(""), 5)
QOther == Raw("B4", "Y", StrOk(4), StrOk(32), StrOk(5), "pandian", None, 13)
QNoCust == Raw("B5", "X", StrOk(5), StrOk(8), RawInt(4), "shangjia", None, 5)
QRelabel == Raw("B1", "Z", StrOk(1), StrOk(32), StrOk(100), "pandian", Some("C1"), 13)

QNoTime == Raw("B6", "X", StrOk(6), StrEmpty, StrOk(7), "shangjia", Some("C1"), 13)

QueryRecords == {QIn, QOut, QPre, QOther, QNoCust, QRelabel, QNoTime}

RECURSIVE SeqsUpTo(_, _)
\* the sequences of at most n elements of S
SeqsUpTo(S, n) ==
    IF n = 0 THEN {<<>>}
    ELSE LET shorter == SeqsUpTo(S, n - 1)
         IN  shorter \cup {Append(l, x) : l \in shorter, x \in S}

\* the event tables that runs over at most MaxEvents of the records leave
QueryStores == {IngestAll(EmptyBag, l) : l \in SeqsUpTo(QueryRecords, MaxEvents)}

\* the products table after a product sync: unit volumes in cm3
QueryProducts ==
    {[product_barcode |-> "X", volume_cbm |-> Some(1250)],
     [product_barcode |-> "Y", volume_cbm |-> None],
     [product_barcode |-> "Z", volume_cbm |-> Some(1000000)]}

QueryOps == {"volume", "turnover", "customers", "skus", "dashboard", "warehouses"}

\* date_from / date_to of the requests: none, a period, a period whose start
\* is later than its end
DateRanges ==
    {<<None, None>>, <<Some(24), None>>, <<None, Some(24)>>, <<Some(24), Some(47)>>,
     <<Some(48), Some(24)>>, <<Some(24), Some(0)>>}

Filters ==
    {Filter(d[1], d[2], wh, cc) :
        d \in DateRanges, wh \in {None, Some("13")}, cc \in {None, Some("UNKNOWN")}}

\* the parameters an operation takes: the others are not part of its key
CacheKey(op, f) ==
    CASE op \in {"customers", "dashboard"} -> <<op, [f EXCEPT !.customer_code = None]>>
      [] op = "warehouses" -> <<op, [f EXCEPT !.warehouse_id = None]>>
      [] OTHER -> <<op, f>>

QueryInit ==
    /\ Idle
    /\ products = QueryProducts
    /\ store \in QueryStores
    /\ sess = store
    /\ rollup = SetToBag(Aggregate(store, products))
    /\ query \in {[QueryIdle EXCEPT !.op = op, !.f = CacheKey(op, f)[2]] :
                    op \in QueryOps, f \in Filters}

\* lines 121-124 and 158-159 of every read: a live cache entry is returned,
\* otherwise one of the values the query can give is stored and returned
Serve(op, values) ==
    /\ query.op = op
    /\ LET key == CacheKey(op, query.f)
           live == CacheLive(cache, key, now)
       IN  IF live # {}
           THEN /\ \E e \in live :
                     query' = [query EXCEPT !.result = Some(e.value), !.calls = 2]
                /\ UNCHANGED cache
           ELSE \E v \in values :
                  /\ cache' = _cache_set(cache, key, v, ver.n, now)
                  /\ query' = [query EXCEPT !.result = Some(v), !.calls = 1]
    /\ UNCHANGED <<store, sess, rollup, products, now, logs, pc, raw_logs, idx, count,
                   err, hist, snap, spc, rpc, rd, ret, fetched, ver, chunker, pager,
                   psync, bg, daily>>

VolumeCall == Serve("volume", {invlog_volume_filtered(rollup, query.f)})

TurnoverCall == Serve("turnover", {invlog_turnover(rollup, query.f)})

CustomersCall == Serve("customers", invlog_customer_breakdown(rollup, query.f))

SkusCall == Serve("skus", {invlog_sku_analysis(store, products, query.f)})

DashboardCall == Serve("dashboard", {invlog_dashboard_summary(rollup, products, query.f)})

WarehousesCall == Serve("warehouses", {invlog_warehouse_comparison(rollup, query.f)})

QueryNext ==
    \/ VolumeCall \/ TurnoverCall \/ CustomersCall
    \/ SkusCall \/ DashboardCall \/ WarehousesCall

\* the read operations alone
QuerySpec == QueryInit /\ [][QueryNext]_vars


(***************************************************************************)
(* SyncService.sync_products (sync_service.py 56-113)                      *)
(***************************************************************************)
\* a raw product: barcode and dimensions in cm as the API delivers them
RawProduct(sku, l, w, h) ==
    [product_barcode |-> sku, product_length |-> l, product_width |-> w,
     product_height |-> h]

PX == RawProduct("X", StrOk(10), StrOk(25), StrOk(5))
PY == RawProduct("Y", StrOk(10), StrBad, StrOk(5))

\* what get_all_products can return
ProductLists == {<<>>, <<PX>>, <<PX, PY>>}

\* _safe_float of a dimension
_safe_float(val) ==
    IF ~Truthy(val) THEN None
    ELSE IF val.k = "int" THEN Some(val.v)
    ELSE IF val.fmt = "ok" THEN Some(val.v)
    ELSE None

\* _calc_volume_cbm, lines 45-50: the volume in cm3 (1e-6 m3, the
\* precision of round(..., 6)) when the three dimensions are non-zero numbers
_calc_volume_cbm(l, w, h) ==
    LET a == _safe_float(l)
        b == _safe_float(w)
        c == _safe_float(h)
    IN  IF a # None /\ b # None /\ c # None /\ a[1] # 0 /\ b[1] # 0 /\ c[1] # 0
        THEN Some(a[1] * b[1] * c[1]) ELSE None

RECURSIVE UpsertProducts(_, _)
\* lines 71-98: ON CONFLICT (product_barcode) DO UPDATE, record by record
UpsertProducts(prods, raws) ==
    IF raws = <<>> THEN prods
    ELSE LET raw == Head(raws)
             row == [product_barcode |-> raw.product_barcode,
                     volume_cbm |-> _calc_volume_cbm(raw.product_length, raw.product_width,
                                                     raw.product_height)]
         IN  UpsertProducts({p \in prods : p.product_barcode # raw.product_barcode}
                                \cup {row}, Tail(raws))

\* lines 58-60: the audit record is created and committed
ProductSyncBegin(by) ==
    psync' = [ProductSyncIdle EXCEPT !.pc = "fetch", !.by = by,
                                     !.log = [NoLog EXCEPT !.status = "running"]]

\* line 63: get_all_products returns
ProductFetch ==
    /\ psync.pc = "fetch"
    /\ \E l \in ProductLists : psync' = [psync EXCEPT !.raw_products = l, !.pc = "upsert"]
    /\ UNCHANGED <<pipeline, chunker, pager, query, bg, daily>>

\* line 63: a page request raises
ProductFetchFail ==
    /\ psync.pc = "fetch"
    /\ psync' = [psync EXCEPT !.pc = "except"]
    /\ UNCHANGED <<pipeline, chunker, pager, query, bg, daily>>

\* lines 66-98: the products are upserted and committed (one batch: the
\* lists are shorter than BATCH = 500)
ProductUpsert ==
    /\ psync.pc = "upsert"
    /\ products' = UpsertProducts(products, psync.raw_products)
    /\ psync' = [psync EXCEPT !.count = Len(psync.raw_products), !.pc = "finalize"]
    /\ UNCHANGED <<store, sess, rollup, cache, now, logs, pc, raw_logs, idx, count, err,
                   hist, snap, spc, rpc, rd, ret, fetched, ver, chunker, pager, query,
                   bg, daily>>

\* lines 100-105: success, records_synced, commit, return count
ProductFinalize ==
    /\ psync.pc = "finalize"
    /\ psync' = [psync EXCEPT !.pc = "returned",
                              !.log = [status |-> "success", records_synced |-> psync.count,
                                       error_message |-> None]]
    /\ UNCHANGED <<pipeline, chunker, pager, query, bg, daily>>

\* the commit of line 103 raises
ProductFinalizeFail ==
    /\ psync.pc = "finalize"
    /\ psync' = [psync EXCEPT !.pc = "except"]
    /\ UNCHANGED <<pipeline, chunker, pager, query, bg, daily>>

\* lines 107-113: failed, error_message, commit, raise
ProductExcept ==
    /\ psync.pc = "except"
    /\ psync' = [psync EXCEPT !.pc = "raised",
                              !.log = [status |-> "failed", records_synced |-> 0,
                                       error_message |-> Some("error")]]
    /\ UNCHANGED <<pipeline, chunker, pager, query, bg, daily>>

ProductSyncStep ==
    \/ ProductFetch \/ ProductFetchFail \/ ProductUpsert
    \/ ProductFinalize \/ ProductFinalizeFail \/ ProductExcept

(***************************************************************************)
(* POST /api/sync/products and _run_sync_in_background (routers/sync.py    *)
(* 26-32, 79-86)                                                           *)
(***************************************************************************)
Started == [status |-> "started"]

\* lines 81-86: the task is added and the acknowledgment returned
TriggerProducts ==
    /\ bg.triggers < MaxTriggers
    /\ bg' = [bg EXCEPT !.response = Some(Started), !.pending = @ + 1,
                        !.triggers = @ + 1]
    /\ UNCHANGED <<pipeline, chunker, pager, query, psync, daily>>

\* lines 28-30: a task added by the endpoint opens its session and calls
\* sync_products (the tasks run one after the other)
BgBegin ==
    /\ bg.pending > 0
    /\ bg.task # "running"
    /\ psync.pc \in {"idle", "returned", "raised"}
    /\ bg' = [bg EXCEPT !.task = "running", !.pending = @ - 1]
    /\ ProductSyncBegin("bg")
    /\ UNCHANGED <<pipeline, chunker, pager, query, daily>>

\* a task that lets the exception of the run out
BgEnd_Reraise ==
    /\ bg.task = "running"
    /\ psync.by = "bg"
    /\ psync.pc \in {"returned", "raised"}
    /\ bg' = [bg EXCEPT !.task = "finished", !.escaped = (psync.pc = "raised")]
    /\ UNCHANGED <<pipeline, chunker, pager, query, psync, daily>>

\* lines 30-32: the run returned, or raised and the exception is passed over
BgEnd ==
    /\ bg.task = "running"
    /\ psync.by = "bg"
    /\ psync.pc \in {"returned", "raised"}
    /\ bg' = [bg EXCEPT !.task = "finished"]
    /\ UNCHANGED <<pipeline, chunker, pager, query, psync, daily>>

TriggerNext == TriggerProducts \/ BgBegin \/ ProductSyncStep \/ BgEnd

\* the product sync endpoint and its background task
TriggerSpec == Init /\ [][TriggerNext]_vars

(***************************************************************************)
(* SyncService.daily_sync (sync_service.py 260-276)                        *)
(***************************************************************************)
\* datetime.utcnow() at the calls, in hours since 2024-01-01 00:00 UTC
UtcNows == {400, 1000}

CST_OFFSET == 8
DAYS_BACK == 7

\* line 266: the clock of the source, UTC+8
NowCst(utcnow) == utcnow + CST_OFFSET

\* a window of the last day only
DailyWindow_OneDay(now_cst) == <<now_cst - 24, now_cst>>

\* lines 267-268: start and end of the window
DailyWindow(now_cst) == <<now_cst - DAYS_BACK * 24, now_cst>>

\* lines 266-270: the window is computed and sync_inventory_logs is called
\* with it (lines 138-140: its audit record is created)
DailyStart ==
    /\ daily.pc \in {"idle", "returned", "raised"}
    /\ pc \in {"idle", "returned", "raised"}
    /\ Len(logs) < MaxRuns
    /\ \E utcnow \in UtcNows :
         LET window == DailyWindow(NowCst(utcnow))
         IN  daily' = [DailyIdle EXCEPT !.pc = "logs", !.utcnow = utcnow,
                                        !.start_time = window[1],
                                        !.end_time = window[2]]
    /\ logs' = Append(logs, [status |-> "running", records_synced |-> 0,
                             error_message |-> None, finished_at |-> None])
    /\ pc' = "fetch"
    /\ raw_logs' = <<>>
    /\ idx' = 1
    /\ count' = 0
    /\ err' = ""
    /\ hist' = <<>>
    /\ snap' = [store |-> store, rollup |-> rollup, rb |-> EmptyBag, ext |-> FALSE,
                sext |-> snap.sext]
    /\ UNCHANGED <<store, sess, rollup, products, cache, now, spc, rpc, rd, ret,
                   ver, fetched, chunker, pager, query, psync, bg>>

\* line 270: sync_inventory_logs raises and the exception leaves daily_sync
DailyLogsRaise ==
    /\ daily.pc = "logs"
    /\ pc = "raised"
    /\ daily' = [daily EXCEPT !.pc = "raised"]
    /\ UNCHANGED <<pipeline, chunker, pager, query, psync, bg>>

\* a daily sync that refreshes the products whatever the ingestion did
DailyProducts_Always ==
    /\ daily.pc = "logs"
    /\ pc \in {"returned", "raised"}
    /\ daily' = [daily EXCEPT !.pc = "products", !.log_count = count,
                              !.refreshed = TRUE]
    /\ ProductSyncBegin("daily")
    /\ UNCHANGED <<pipeline, chunker, pager, query, bg>>

\* lines 270-271: sync_inventory_logs returns its count, sync_products is
\* called
DailyProducts ==
    /\ daily.pc = "logs"
    /\ pc = "returned"
    /\ daily' = [daily EXCEPT !.pc = "products", !.log_count = count,
                              !.refreshed = TRUE]
    /\ ProductSyncBegin("daily")
    /\ UNCHANGED <<pipeline, chunker, pager, query, bg>>

\* line 271: sync_products raises and the exception leaves daily_sync
DailyProductsRaise ==
    /\ daily.pc = "products"
    /\ psync.pc = "raised"
    /\ daily' = [daily EXCEPT !.pc = "raised"]
    /\ UNCHANGED <<pipeline, chunker, pager, query, psync, bg>>

\* lines 271-276: sync_products returns its count, both counts are returned
DailyReturn ==
    /\ daily.pc = "products"
    /\ psync.pc = "returned"
    /\ daily' = [daily EXCEPT !.pc = "returned",
                              !.result = Some([inventory_logs |-> daily.log_count,
                                               products |-> psync.count])]
    /\ UNCHANGED <<pipeline, chunker, pager, query, psync, bg>>

(***************************************************************************)
(* Specifications                                                          *)
(***************************************************************************)
\* the ingestion runs alone
Next == StartRun \/ SyncStep

Spec == Init /\ [][Next]_vars

\* the record fetched by the runs that share the database with other
\* processes
FetchOne == FetchPageFrom({RecA})

\* ingestion runs and analytics reads on one event loop
CacheNext == StartRun \/ FetchOne \/ SyncTail \/ ReadStep \/ Tick

CacheSpec == Init /\ [][CacheNext]_vars

\* ingestion runs that the event loop keeps running: every await of the
\* run returns or raises (request timeout 60 s, database busy timeout 60 s)
FetchFair == FetchPageFrom({RecA, RecX})

FairNext == StartRun \/ FetchFair \/ SyncTail

FairSpec == Init /\ [][FairNext]_vars /\ WF_vars(SyncTail)

\* the analytics reads and the clock, on tables that do not change
TtlNext == ReadStep \/ Tick

TtlSpec == QueryInit /\ [][TtlNext]_vars

\* ingestion runs and the build_summary script on one database
ScriptNext == StartRun \/ FetchOne \/ SyncTail \/ ScriptStep

ScriptSpec == Init /\ [][ScriptNext]_vars

\* daily syncs: the ingestion of the window, then the product sync
DailyNext ==
    \/ DailyStart \/ FetchFair \/ SyncTail \/ DailyLogsRaise \/ DailyProducts
    \/ ProductSyncStep \/ DailyProductsRaise \/ DailyReturn

DailySpec == Init /\ [][DailyNext]_vars

(***************************************************************************)
(* invlog_sku_analysis with its sort key and limit (analytics.py 306-370,  *)
(* routers/analytics.py 135-157)                                           *)
(***************************************************************************)
\* the values of sort_by the interface accepts (routers/analytics.py 141)
SortKeys == {"outbound_qty", "inbound_qty", "outbound_vol", "inbound_vol"}

\* lines 347-350: the column of the ORDER BY ... DESC
OrderColumn(sort_by) ==
    IF sort_by = "inbound_qty" THEN "inbound_vol" ELSE "outbound_vol"

\* the value of a row of the grouped query in an order column: the sums
\* before rounding (the events of the model all carry a quantity, so no
\* sum is NULL)
OrderValue(events, prods, row, col) ==
    LET dir == IF col \in {"inbound_qty", "inbound_vol"} THEN DIR_INBOUND ELSE DIR_OUTBOUND
        grp == {e \in DOMAIN events :
                   /\ e.product_barcode = row.product_barcode
                   /\ e.customer_code = row.customer_code
                   /\ e.direction = dir
                   /\ e.quantity # None}
    IN  IF col \in {"inbound_qty", "outbound_qty"}
        THEN SumF(events, [e \in grp |-> e.quantity[1]])
        ELSE SumF(events, [e \in grp |-> e.quantity[1] * UnitVolume(prods, e.product_barcode)])

RECURSIVE Descending(_, _, _, _)
\* the orders ORDER BY col DESC can give the rows (rows of equal value in
\* any order)
Descending(events, prods, rows, col) ==
    IF rows = {} THEN {<<>>}
    ELSE LET top == {r \in rows : \A o \in rows :
                        OrderValue(events, prods, r, col) >= OrderValue(events, prods, o, col)}
         IN  UNION {{<<r>> \o rest : rest \in Descending(events, prods, rows \ {r}, col)} :
                        r \in top}

\* line 351: LIMIT
Limit(l, limit) == SubSeq(l, 1, Min(limit, Len(l)))

\* lines 320-367: the lists the query can return
invlog_sku_list(events, prods, f, sort_by, limit) ==
    {Limit(l, limit) :
        l \in Descending(events, prods, invlog_sku_analysis(events, prods, f),
                         OrderColumn(sort_by))}

\* lines 316-369: one call of invlog_sku_analysis with a sort key and a limit
SkusListCall ==
    /\ query.op = "skus"
    /\ query.calls < 2
    /\ \E sort_by \in SortKeys, limit \in 1..MaxLimit :
         LET key == <<"skus", query.f, sort_by, limit>>
             live == CacheLive(cache, key, now)
         IN  IF live # {}
             THEN /\ \E e \in live :
                       query' = [query EXCEPT !.result = Some(e.value), !.calls = @ + 1]
                  /\ UNCHANGED cache
             ELSE \E v \in invlog_sku_list(store, products, query.f, sort_by, limit) :
                    /\ cache' = _cache_set(cache, key, v, ver.n, now)
                    /\ query' = [query EXCEPT !.result = Some(v), !.calls = @ + 1]
    /\ UNCHANGED <<store, sess, rollup, products, now, logs, pc, raw_logs, idx, count,
                   err, hist, snap, spc, rpc, rd, ret, fetched, ver, chunker, pager,
                   psync, bg, daily>>

\* the SKU breakdown with its sort keys and limits
SkuSpec == QueryInit /\ [][SkusListCall]_vars

(***************************************************************************)
(* Claims                                                                  *)
(***************************************************************************)
\* the idempotency key of a row and of the values of an upsert are the same
SameTriple(row, values) ==
    /\ row.ref_no = values.ref_no
    /\ row.product_barcode = values.product_barcode
    /\ row.ibl_add_time = values.ibl_add_time

\* C1: applying a raw record whose (reference id, SKU, source timestamp)
\* triple the event table already holds never increases the number of rows,
\* and afterwards every row of that triple carries the values of the later
\* application; also when the source timestamp normalizes to absent.
C1_UpsertInPlace ==
    [][(/\ pc = "upsert"
        /\ idx' = idx + 1
        /\ \E row \in DOMAIN sess : SameTriple(row, Normalize(raw_logs[idx])))
       => (/\ BagSize(sess') <= BagSize(sess)
           /\ \A row \in DOMAIN sess' :
                SameTriple(row, Normalize(raw_logs[idx])) =>
                    /\ row = Normalize(raw_logs[idx])
                    /\ sess'[row] = 1)]_vars

\* C2: a read that starts after rebuild_daily_summary returned never returns
\* a value computed from summary content older than what that rebuild
\* committed.
C2_FreshAfterRebuild == ret # None => ret[1].src >= ret[1].start

\* C3: once an audit record has left status running, none of its fields is
\* written again.
C3_FinalizedOnce ==
    [][\A i \in DOMAIN logs : logs[i].status # "running" => logs'[i] = logs[i]]_vars

\* the audit records of the runs that have returned or raised
TerminalOK ==
    /\ \A i \in 1..(cur - 1) : logs[i].status \in {"success", "failed"}
    /\ pc = "raised" => /\ logs[cur].status = "failed"
                        /\ logs[cur].finished_at # None
                        /\ logs[cur].error_message = Some(err)
                        /\ err # ""
    /\ pc = "returned" => /\ logs[cur].status = "success"
                          /\ logs[cur].finished_at # None
                          /\ err = ""

C5_FetchFailureAppliesNothing ==
    (pc \in {"except", "raised"} /\ err = "fetch") =>
        /\ store = snap.store
        /\ sess = snap.store
        /\ rollup = snap.rollup
        /\ count = 0
        /\ hist = <<>>
        /\ pc = "raised" => logs[cur].status = "failed"

C5_Witness ==
    /\ pc = "raised"
    /\ err = "fetch"
    /\ Len(raw_logs) > 0
    /\ BagSize(store) > 0
    /\ BagSize(rollup) > 0

\* C6: when the aggregation query of a rebuild fails, the summary table
\* holds afterwards what it held before that rebuild began.
C6_FailedRebuildKeepsRollup ==
    (pc \in {"except", "raised"} /\ err = "rebuild_insert") => rollup = snap.rb

\* the summary table as the aggregation of the committed tables gives it
Rebuilt == SetToBag(Aggregate(store, products))

\* C7: a run that returned has, after its last batch commit, finalized,
\* deleted and re-inserted the summary rows and then cleared the cache, in
\* that order; the cache is never cleared before the insert is committed.
C7_RebuildThenClear ==
    /\ pc = "returned" =>
         LET n == Len(hist) IN
         /\ n >= 4
         /\ hist[n] = "cache_clear"
         /\ hist[n - 1] = "rb_insert"
         /\ hist[n - 2] = "rb_delete"
         /\ hist[n - 3] = "final_commit"
         /\ \A i \in 1..(n - 4) : hist[i] = "batch_commit"
         /\ rollup = Rebuilt
    /\ \A k \in DOMAIN hist :
         hist[k] = "cache_clear" => (k > 1 /\ hist[k - 1] = "rb_insert")

C7_Witness ==
    /\ pc = "returned"
    /\ count = 2
    /\ Len(hist) = 6
    /\ BagSize(rollup) > 0

Warehouses == {"13", "5"}

\* the events of a warehouse and direction that have a display timestamp
EventCount(wh, dir) ==
    LET S == {e \in DOMAIN store : /\ e.warehouse_id = wh
                                   /\ e.direction = dir
                                   /\ e.warehouse_operation_time # None}
    IN  BagCardinality([e \in S |-> store[e]])

\* sum(event_count) over the summary rows of a warehouse and direction
RollupCount(wh, dir) ==
    SumF(rollup, [r \in {x \in DOMAIN rollup : x.warehouse_id = wh /\ x.direction = dir}
                    |-> r.event_count])

\* C8 as stated: after a rebuild, for every warehouse and every direction
\* (inbound, outbound, other) the event counts of the summary rows add up
\* to the number of events with a display timestamp.
C8_AllDirections ==
    pc \in {"rb_clear", "returned"} =>
        \A wh \in Warehouses : \A dir \in {"inbound", "outbound", "other"} :
            RollupCount(wh, dir) = EventCount(wh, dir)

\* C8 as amended: after a rebuild, for every warehouse and each of the
\* directions inbound and outbound the event counts of the summary rows add
\* up to the number of events with a display timestamp; direction other
\* has no summary row.
C8_RollupCounts ==
    pc \in {"rb_clear", "returned"} =>
        /\ \A wh \in Warehouses : \A dir \in {"inbound", "outbound"} :
               RollupCount(wh, dir) = EventCount(wh, dir)
        /\ \A wh \in Warehouses : RollupCount(wh, "other") = 0

C8_Witness ==
    /\ pc = "returned"
    /\ RollupCount("13", "inbound") = 2
    /\ EventCount("13", "other") = 1

\* C9: a rebuild that completes with no concurrent writer leaves the
\* summary table equal to the aggregation of the current event and product
\* tables, whatever it held before; rebuilding a table that already is that
\* aggregation leaves it as it was; only the steps of a rebuild write it.
C9_RollupDerived ==
    /\ []((pc = "rb_clear" /\ ~snap.ext) => rollup = Rebuilt)
    /\ [][(spc = "cleared" /\ spc' = "idle" /\ ~snap.sext) =>
              rollup' = SetToBag(Aggregate(store', products'))]_vars
    /\ [][(pc = "rb_insert" /\ pc' = "rb_clear" /\ ~snap.ext /\ snap.rb = Rebuilt) =>
              rollup' = snap.rb]_vars
    /\ [][rollup' # rollup =>
              \/ pc \in {"rb_delete", "rb_insert"} /\ pc' # pc
              \/ spc' # spc]_vars

C9_Witness ==
    /\ pc = "rb_clear"
    /\ ~snap.ext
    /\ BagSize(snap.rb) > 0
    /\ snap.rb # rollup
    /\ ver.scripts = 1

\* C10: a run over records that an earlier run has already ingested leaves
\* the event table and the rebuilt summary table as that earlier run left
\* them.
C10_RerunChangesNothing ==
    (/\ pc = "returned"
     /\ cur = 2
     /\ logs[1].status = "success"
     /\ snap.store = IngestAll(EmptyBag, raw_logs)
     /\ snap.rollup = SetToBag(Aggregate(snap.store, products)))
    => (store = snap.store /\ rollup = snap.rollup)

\* C11: the chunk ranges requested so far start at the requested start,
\* each starts where the one before ended, each is wider than zero and no
\* wider than six months, none reaches past the requested end; when the
\* call returns the last one ends at the requested end (no chunk for an
\* empty span); the page requests go chunk by chunk, pages 1, 2, ... of a
\* chunk all sent before the next chunk is opened.
C11_ChunksCoverSpan ==
    LET ch == chunker.chunks
        rq == chunker.reqs
        n == Len(ch)
    IN  /\ n > 0 => ch[1].from = chunker.start
        /\ \A i \in 1..n : /\ ch[i].from < ch[i].to
                           /\ ch[i].to - ch[i].from <= MAX_CHUNK_MONTHS
                           /\ ch[i].to <= chunker.end
        /\ \A i \in 1..(n - 1) : ch[i + 1].from = ch[i].to
        /\ chunker.pc = "done" =>
             IF chunker.start = chunker.end THEN n = 0 ELSE ch[n].to = chunker.end
        /\ \A k \in 1..Len(rq) :
             IF k = 1 THEN rq[k] = [chunk |-> 1, page |-> 1]
             ELSE \/ rq[k].chunk = rq[k - 1].chunk /\ rq[k].page = rq[k - 1].page + 1
                  \/ rq[k].chunk = rq[k - 1].chunk + 1 /\ rq[k].page = 1
        /\ \A i \in 1..n : i < n \/ chunker.pc \in {"next", "done"} =>
             \E k \in 1..Len(rq) : rq[k].chunk = i

C11_Witness ==
    /\ chunker.pc = "done"
    /\ chunker.start = 1
    /\ chunker.end = 13
    /\ Len(chunker.chunks) = 2
    /\ Len(chunker.reqs) = 3

\* C12: the page requests of a fetch are pages 1, 2, 3, ... in that order,
\* each once; a fetch that returns hands back records of the source
\* without repetition, as many as the reported total N unless the last
\* page answered came back with zero records, and no page is requested
\* once N records are accumulated.
C12_PaginationComplete ==
    /\ \A k \in 1..Len(pager.reqs) : pager.reqs[k] = k
    /\ \A k \in 1..Len(pager.all_data) :
         /\ pager.all_data[k] \in 1..pager.total
         /\ k > 1 => pager.all_data[k - 1] < pager.all_data[k]
    /\ Len(pager.all_data) <= pager.total
    /\ (pager.pc = "request" /\ pager.reqs # <<>>) => Len(pager.all_data) < pager.total
    /\ pager.pc = "returned" =>
         \/ Len(pager.all_data) = pager.total
         \/ Len(pager.all_data) < pager.total /\ pager.empty

C12_Witness ==
    /\ pager.pc = "returned"
    /\ pager.total = 5
    /\ Len(pager.all_data) = 5
    /\ pager.reqs = <<1, 2, 3>>

\* the turnover call has been served
TurnoverServed == query.op = "turnover" /\ query.result # None

\* the summary rows of both directions that pass the warehouse and customer
\* filter of the request
TurnoverRows ==
    {r \in DOMAIN rollup :
        /\ r.direction \in BothDirections
        /\ query.f.warehouse_id # None => r.warehouse_id = query.f.warehouse_id[1]
        /\ query.f.customer_code # None => r.customer_code = query.f.customer_code[1]}

\* the volume, in cm3, of the rows of TurnoverRows of direction dir whose
\* date is in lo..hi
VolumeBetween(dir, lo, hi) ==
    Coalesce(SumCol(rollup, {r \in TurnoverRows : /\ r.direction = dir
                                                   /\ r.summary_date >= lo
                                                   /\ r.summary_date <= hi},
                    "total_volume_cbm"), 0)


\* C13: a served turnover reports an average inventory of at least the
\* epsilon 0.001 and a rate that is a number, also when beginning and
\* ending inventory are both 0; when the request has no period start, or no
\* summary row is dated before it, the beginning inventory is 0.
C13_TurnoverNoDivZero ==
    TurnoverServed =>
        LET r == query.result[1]
            f == query.f
        IN  /\ r.average_inventory_vol >= AVG_FLOOR \div 100
            /\ r.turnover_rate \in Nat
            /\ (r.beginning_inventory_vol = 0 /\ r.ending_inventory_vol = 0) =>
                   r.average_inventory_vol = AVG_FLOOR \div 100
            /\ (\/ f.date_from = None
                \/ \A row \in DOMAIN rollup : row.summary_date >= DateOf(f.date_from[1]))
               => r.beginning_inventory_vol = 0

C13_Witness ==
    /\ TurnoverServed
    /\ BagSize(rollup) > 1
    /\ query.f.date_from # None
    /\ query.result[1].beginning_inventory_vol = 0
    /\ query.result[1].ending_inventory_vol = 0
    /\ query.result[1].average_inventory_vol = 10
    /\ query.result[1].turnover_rate = 0

\* a served turnover over a period [from, to], from <= to
PeriodServed ==
    /\ TurnoverServed
    /\ query.f.date_from # None
    /\ query.f.date_to # None
    /\ query.f.date_from[1] <= query.f.date_to[1]

\* beginning inventory, period inbound and period outbound of the request, in cm3
Beginning ==
    LET d == DateOf(query.f.date_from[1])
    IN  VolumeBetween(DIR_INBOUND, 0, d - 1) - VolumeBetween(DIR_OUTBOUND, 0, d - 1)

PeriodIn ==
    VolumeBetween(DIR_INBOUND, DateOf(query.f.date_from[1]), DateOf(query.f.date_to[1]))

PeriodOut ==
    VolumeBetween(DIR_OUTBOUND, DateOf(query.f.date_from[1]), DateOf(query.f.date_to[1]))

\* inbound = 100, outbound = 60, no prior history gives beginning = 0,
\* ending = 40, average = 20, rate = 3 (volumes in 1e-4 m3, rate in 1e-4)
TurnoverExample ==
    (PeriodIn = 100000000 /\ PeriodOut = 60000000 /\ Beginning = 0) =>
        /\ query.result[1].beginning_inventory_vol = 0
        /\ query.result[1].ending_inventory_vol = 400000
        /\ query.result[1].average_inventory_vol = 200000
        /\ query.result[1].turnover_rate = 30000

\* C14 as stated: over a period [from, to], beginning is inbound minus
\* outbound volume dated strictly before from, ending is beginning plus
\* period inbound minus period outbound, and the rate is period outbound
\* over the average of beginning and ending.
C14_RateOverAverage ==
    PeriodServed =>
        LET r == query.result[1]
            ending == Beginning + PeriodIn - PeriodOut
        IN  /\ r.beginning_inventory_vol = Round4(Beginning)
            /\ r.ending_inventory_vol = Round4(ending)
            /\ IF PeriodOut = 0 THEN r.turnover_rate = 0
               ELSE /\ Beginning + ending > 0
                    /\ r.turnover_rate = RoundRatio4(2 * PeriodOut, Beginning + ending)
            /\ TurnoverExample

\* C14 as amended: the rate is period outbound over the larger of the
\* average of beginning and ending and the epsilon 0.001; every reported
\* value is rounded to 4 decimals.
C14_RateOverFlooredAverage ==
    PeriodServed =>
        LET r == query.result[1]
            ending == Beginning + PeriodIn - PeriodOut
        IN  /\ r.beginning_inventory_vol = Round4(Beginning)
            /\ r.ending_inventory_vol = Round4(ending)
            /\ r.turnover_rate =
                   RoundRatio4(2 * PeriodOut, Max(Beginning + ending, 2 * AVG_FLOOR))
            /\ TurnoverExample

C14_Witness ==
    /\ PeriodServed
    /\ PeriodIn = 100000000
    /\ PeriodOut = 60000000
    /\ Beginning = 0
    /\ query.result[1].turnover_rate = 30000

\* the event table without the events of direction other
Directional(events) ==
    [e \in {x \in DOMAIN events : x.direction \in BothDirections} |-> events[e]]

\* the values operation op can return for filter f from a summary table,
\* an event table and a products table
ValuesOf(op, table, events, prods, f) ==
    CASE op = "volume" -> {invlog_volume_filtered(table, f)}
      [] op = "turnover" -> {invlog_turnover(table, f)}
      [] op = "customers" -> invlog_customer_breakdown(table, f)
      [] op = "skus" -> {invlog_sku_analysis(events, prods, f)}
      [] op = "dashboard" -> {invlog_dashboard_summary(table, prods, f)}
      [] OTHER -> {invlog_warehouse_comparison(table, f)}

\* C15: every stored event carries the direction that its operation-type
\* label classifies to, also after a re-ingestion with another label; the
\* summary table has no row of direction other and is what it would be
\* without the events of direction other, and every read returns what it
\* would return without them.
C15_OtherExcluded ==
    /\ \A e \in DOMAIN store :
         /\ e.direction = _classify_direction(e.operation_type)
         /\ e.direction \in {"inbound", "outbound", "other"}
    /\ \A a \in QueryRecords, b \in QueryRecords :
         Conflicts(Normalize(a), Normalize(b)) =>
             \A e \in DOMAIN IngestAll(EmptyBag, <<a, b>>) :
                 e.direction = _classify_direction(b.operation_type)
    /\ \A r \in DOMAIN rollup : r.direction \in BothDirections
    /\ rollup = SetToBag(Aggregate(Directional(store), products))
    /\ query.result # None =>
         query.result[1] \in ValuesOf(query.op, SetToBag(Aggregate(Directional(store), products)),
                                      Directional(store), products, query.f)

C15_Witness ==
    /\ Normalize(QRelabel) \in DOMAIN store
    /\ Normalize(QOther) \in DOMAIN store
    /\ BagSize(rollup) = 1
    /\ query.op = "skus"
    /\ query.result # None
    /\ query.result[1] # {}

\* C16: building the values of a record never raises, whatever its
\* timestamp and numeric fields hold: every upsert step applies its row and
\* goes on.
C16_NormalizeNeverRaises ==
    [][pc = "upsert" => (pc' # "except" /\ count' = count + 1)]_vars

\* the request served has a period start later than its period end
FromAfterTo ==
    /\ query.result # None
    /\ query.f.date_from # None
    /\ query.f.date_to # None
    /\ query.f.date_from[1] > query.f.date_to[1]

\* C17: a read called with from later than to returns an empty result: no
\* series point, no list entry, and 0 for every total drawn from the
\* summary table.
C17_EmptyWhenFromAfterTo ==
    FromAfterTo =>
        LET r == query.result[1] IN
        CASE query.op = "volume" -> r[DIR_INBOUND] = <<>> /\ r[DIR_OUTBOUND] = <<>>
          [] query.op = "turnover" ->
                /\ r.total_inbound_qty = 0 /\ r.total_outbound_qty = 0
                /\ r.total_inbound_vol = 0 /\ r.total_outbound_vol = 0
                /\ r.beginning_inventory_vol = 0 /\ r.ending_inventory_vol = 0
                /\ r.turnover_rate = 0
          [] query.op = "dashboard" ->
                /\ r.inbound.total_events = 0 /\ r.outbound.total_events = 0
                /\ r.inbound.total_qty = 0 /\ r.outbound.total_qty = 0
                /\ r.inbound.total_vol = 0 /\ r.outbound.total_vol = 0
                /\ r.unique_customers = 0 /\ r.active_warehouses = 0
          [] OTHER -> r = {}

\* the events of direction dir that the aggregation selects
DirectionalEvents(dir) == {e \in Selected(store) : e.direction = dir}

\* the entries of a customer breakdown add up to n events of direction dir
BreakdownEvents(res, dir) ==
    LET f == [e \in res |-> IF dir = DIR_INBOUND THEN e.inbound_events
                                                  ELSE e.outbound_events]
    IN  SumF(SetToBag(res), f)

\* C18: every inbound or outbound event with a display timestamp and no
\* customer code is counted in exactly one summary row, whose customer is
\* UNKNOWN; the unfiltered customer breakdown has an UNKNOWN entry for it
\* and its entries add up to all the events of each direction.
C18_AbsentCustomerCounted ==
    /\ \A e \in Selected(store) :
         e.customer_code = None =>
             Cardinality({r \in DOMAIN rollup :
                             /\ r.summary_date = DateOf(e.warehouse_operation_time[1])
                             /\ r.warehouse_id = e.warehouse_id
                             /\ r.direction = e.direction
                             /\ r.customer_code = "UNKNOWN"
                             /\ rollup[r] = 1}) = 1
    /\ (query.op = "customers" /\ query.result # None /\ query.f = NoFilter) =>
         \A dir \in BothDirections :
            /\ (\E e \in DirectionalEvents(dir) : e.customer_code = None) =>
                   \E x \in query.result[1] : x.customer_code = "UNKNOWN"
            /\ BreakdownEvents(query.result[1], dir) =
                   CountRows(store, DirectionalEvents(dir))

\* C19: the caller of the trigger holds the acknowledgment from the moment
\* the task is queued, before the run starts, and never anything else:
\* neither the count nor the status nor an exception of the run; an
\* exception of the run does not leave the task; the outcome is in the
\* audit record of the run.
C19_AckOnly ==
    /\ bg.triggers > 0 => bg.response = Some(Started)
    /\ bg.triggers = 0 => bg.response = None /\ bg.task = "none"
    /\ ~bg.escaped
    /\ (bg.task = "finished" /\ psync.by = "bg") =>
         /\ psync.pc = "returned" => psync.log.status = "success"
         /\ psync.pc = "raised" => psync.log.status = "failed"

C19_Witness ==
    /\ bg.task = "finished"
    /\ bg.triggers = 2
    /\ psync.pc = "raised"
    /\ psync.log.status = "failed"
    /\ bg.response = Some(Started)

\* a daily sync has ended: it returned or an exception left it
DailyEnded == daily.pc \in {"returned", "raised"}

\* the window of the daily sync is the last 7 days of the clock of the source
DailyWindowExact ==
    daily.pc # "idle" =>
        /\ daily.end_time = daily.utcnow + 8
        /\ daily.start_time = daily.end_time - 7 * 24

\* C20 as stated: every daily sync ingests the window [now - 7 days, now] of
\* the source timezone, triggers the product refresh and returns the number
\* of events and of products synced.
C20_EveryDailySyncRefreshesAndReturns ==
    /\ DailyWindowExact
    /\ DailyEnded => (daily.refreshed /\ daily.result # None)

\* C20 amended: every daily sync ingests the window [now - 7 days, now] of
\* the source timezone; the product refresh is triggered exactly when the
\* ingestion returned normally, and a daily sync that returns (ingestion and
\* refresh both returned normally) returns the number of events and of
\* products synced; when either raises, the exception leaves the daily sync
\* and nothing is returned.
C20_DailySyncWindowAndCounts ==
    /\ DailyWindowExact
    /\ daily.refreshed =>
         /\ pc = "returned"
         /\ logs[Len(logs)].status = "success"
    /\ (DailyEnded /\ ~daily.refreshed) =>
         /\ pc = "raised"
         /\ logs[Len(logs)].status = "failed"
         /\ psync.by # "daily" \/ psync.pc \in {"returned", "raised"}
    /\ daily.pc = "returned" =>
         /\ daily.refreshed
         /\ psync.log.status = "success"
         /\ daily.result = Some([inventory_logs |-> logs[Len(logs)].records_synced,
                                 products |-> psync.log.records_synced])
         /\ daily.result[1].inventory_logs = Len(raw_logs)
         /\ daily.result[1].products = Len(psync.raw_products)
    /\ daily.pc = "raised" =>
         /\ daily.result = None
         /\ daily.refreshed => psync.log.status = "failed"
    /\ daily.pc \in {"idle", "logs", "products"} => daily.result = None

C20_Witness ==
    /\ daily.pc = "returned"
    /\ daily.utcnow = 1000
    /\ daily.start_time = 840
    /\ daily.end_time = 1008
    /\ daily.result = Some([inventory_logs |-> 2, products |-> 2])

\* the events of direction dir dated day that match the filter of the request
BucketEvents(dir, day) ==
    {e \in DirectionalEvents(dir) :
        /\ DateOf(e.warehouse_operation_time[1]) = day
        /\ query.f.date_from # None =>
               DateOf(e.warehouse_operation_time[1]) >= DateOf(query.f.date_from[1])
        /\ query.f.date_to # None =>
               DateOf(e.warehouse_operation_time[1]) <= DateOf(query.f.date_to[1])
        /\ query.f.warehouse_id # None => e.warehouse_id = query.f.warehouse_id[1]
        /\ query.f.customer_code # None =>
               Coalesce(e.customer_code, "UNKNOWN") = query.f.customer_code[1]}

\* C21: every bucket of a served volume series reports, for its direction,
\* the number of distinct SKUs, the number and the quantity sum of the
\* events of that direction in that bucket that match the filters.
C21_VolumeCountsExact ==
    (query.op = "volume" /\ query.result # None) =>
        \A dir \in BothDirections :
            \A i \in 1..Len(query.result[1][dir]) :
                LET p == query.result[1][dir][i]
                    ev == BucketEvents(dir, p.period)
                IN  /\ p.unique_skus = Cardinality({e.product_barcode : e \in ev})
                    /\ p.event_count = CountRows(store, ev)
                    /\ p.total_qty =
                         SumF(store, [e \in {x \in ev : x.quantity # None} |-> e.quantity[1]])

\* the cache entries of the SKU breakdowns served with a sort key and limit
SkuLists == {e \in cache : e.key[1] = "skus" /\ Len(e.key) = 4}

\* C22: a SKU breakdown has at most limit rows, one per (SKU, customer),
\* in descending order of the sort key of the request, for each of the four
\* sort keys.
C22_SkuSortedByRequestedKey ==
    \A e \in SkuLists :
        LET l == e.value
            sort_by == e.key[3]
            limit == e.key[4]
        IN  /\ Len(l) <= limit
            /\ \A i, j \in 1..Len(l) :
                 (i < j) =>
                    /\ <<l[i].product_barcode, l[i].customer_code>> #
                           <<l[j].product_barcode, l[j].customer_code>>
                    /\ l[i][sort_by] >= l[j][sort_by]

\* the run failed while it applied a batch: in an upsert or in the commit
\* of the batch
FailedInBatch == pc \in {"except", "raised"} /\ err \in {"upsert", "commit"}

\* the number of records in the batches the run has committed
Checkpointed ==
    Min(Cardinality({i \in DOMAIN hist : hist[i] = "batch_commit"}) * BATCH, Len(raw_logs))

\* C23: when a run fails while applying a batch, the Event Store holds, from
\* the failure on, the events of all the batches committed before, and of
\* the records fetched it lacks at most those of the batch in flight: it is
\* the table the run started from with the first m records applied, m
\* between the last checkpoint and one batch more.
C23_CommittedBatchesDurable ==
    FailedInBatch =>
        /\ \E m \in Checkpointed..Min(Checkpointed + BATCH, Len(raw_logs)) :
              store = IngestAll(snap.store, SubSeq(raw_logs, 1, m))
        /\ \A i \in 1..Checkpointed :
              \E row \in DOMAIN store : SameTriple(row, Normalize(raw_logs[i]))

C23_Witness ==
    /\ pc = "raised"
    /\ err = "upsert"
    /\ Checkpointed >= 1
    /\ Checkpointed < Len(raw_logs)
    /\ store # snap.store
    /\ store = IngestAll(snap.store, SubSeq(raw_logs, 1, Checkpointed))

\* the step is the cache lookup of a read (_cache_get and what follows it)
Lookup == rpc = "idle" /\ now' = now

\* C24: an entry is stored with expiry t + 300, t the time of the store; a
\* read returns a cached value only from an entry of its key whose expiry
\* is later than the time of the read; a read at or after the expiry of the
\* entry of its key reports a miss, removes the entry and goes on to
\* recompute the value.
C24_TtlStrict ==
    [][/\ (rpc = "store" /\ rpc' = "idle") =>
            \E e \in cache' : /\ e.key = rd.key
                              /\ e.value = rd.value
                              /\ e.expiry = now + 300
       /\ (Lookup /\ rpc' = "idle") =>
            /\ ret' # None /\ ret'[1].hit
            /\ \E e \in cache : /\ e.key = ret'[1].key
                                /\ e.value = ret'[1].value
                                /\ now < e.expiry
            /\ cache' = cache
       /\ (Lookup /\ \E e \in cache : e.key \in ReadOps /\ e.expiry <= now) =>
            /\ rpc' = "query"
            /\ \A e \in cache' : e.key # rd'.key
            /\ ret' = ret]_vars

\* an entry stored at time 0 was found expired by a read at time 300, which
\* removed it and is recomputing
C24_Witness ==
    /\ now = 300
    /\ rpc = "query"
    /\ cache = {}
    /\ ret # None
    /\ ~ret[1].hit
    /\ rollup # EmptyBag

\* C25: the audit record of a run that has returned or raised carries the
\* number of raw records the run applied to the Event Store, after a
\* success and after a failure alike.
C25_RecordCountFinal ==
    pc \in {"returned", "raised"} => logs[cur].records_synced = count

\* a rebuild of the service and a rebuild of the script have both completed
BothRebuilt == pc = "returned" /\ spc = "idle" /\ ver.scripts >= 1

\* C26: after two rebuilds whose steps interleaved have both completed, the
\* Rollup holds one row per (date, warehouse, direction, customer) and its
\* rows are the aggregation of the Event Store: no bucket is counted twice.
C26_ConcurrentRebuildsExact ==
    BothRebuilt =>
        /\ \A r \in DOMAIN rollup : rollup[r] = 1
        /\ \A r1, r2 \in DOMAIN rollup :
              (/\ r1.summary_date = r2.summary_date
               /\ r1.warehouse_id = r2.warehouse_id
               /\ r1.direction = r2.direction
               /\ r1.customer_code = r2.customer_code) => r1 = r2
        /\ rollup = SetToBag(Aggregate(store, products))

\* C27 as stated: a fetch from a source of total N issues at most N page
\* requests.
C27_AtMostTotalRequests == Len(pager.reqs) <= pager.total

\* C27 amended: every page request either adds at least one record to the
\* accumulated list or is the last of the fetch (an empty page always is);
\* a fetch from a source of total N issues at most max(N, 1) page requests,
\* the first one being issued whatever the total is, and every fetch ends:
\* it returns or the request raises.
C27_PaginationTerminates ==
    /\ [](Len(pager.reqs) <= Max(pager.total, 1))
    /\ [][(pager.pc = "request" /\ pager'.pc = "request") =>
              Len(pager'.all_data) > Len(pager.all_data)]_vars
    /\ [][(pager.pc = "request" /\ pager'.all_data = pager.all_data) =>
              pager'.pc \in {"returned", "raised"}]_vars
    /\ (pager.pc = "request") ~> (pager.pc \in {"returned", "raised"})

C27_Witness ==
    /\ pager.pc = "returned"
    /\ pager.total = 5
    /\ pager.reqs = <<1, 2, 3, 4>>
    /\ pager.empty
    /\ Len(pager.all_data) = 3

\* a rebuild of the ingestion run has completed
RebuildCompleted == pc \in {"rb_clear", "returned"}

LastSteps == SubSeq(hist, Len(hist) - 3, Len(hist))

\* C29: the product refresh of a daily sync starts only after the ingestion
\* returned normally, that is after its final commit, the rebuild of the
\* Rollup and the cache clear, in this order; at that moment the Rollup is
\* the aggregation over the product metadata of before the refresh; during
\* and after the refresh no step of the daily sync writes the Rollup or the
\* cache, and a daily sync whose ingestion raised has refreshed nothing.
C29_DailyOrder ==
    /\ [](daily.refreshed =>
            /\ pc = "returned"
            /\ logs[cur].status = "success"
            /\ Len(hist) >= 4
            /\ LastSteps = <<"final_commit", "rb_delete", "rb_insert", "cache_clear">>)
    /\ []((daily.pc = "raised" /\ pc = "raised") => ~daily.refreshed)
    /\ [][(daily.pc = "logs" /\ daily'.pc = "products") =>
              /\ rollup = SetToBag(Aggregate(store, products))
              /\ psync'.pc = "fetch"]_vars
    /\ [][(daily.pc = "products") =>
              /\ rollup' = rollup
              /\ cache' = cache
              /\ store' = store
              /\ hist' = hist]_vars

\* a daily sync has returned and its refresh changed the product metadata:
\* the Rollup it left is not the aggregation over the refreshed products
C29_Witness ==
    /\ daily.pc = "returned"
    /\ rollup # EmptyBag
    /\ rollup # SetToBag(Aggregate(store, products))
    /\ LastSteps = <<"final_commit", "rb_delete", "rb_insert", "cache_clear">>

\* the sum of the column col over the rows of a SKU breakdown
SkuTotal(rows, col) == SumF(SetToBag(rows), [e \in rows |-> e[col]])

\* C30: on one snapshot with the Rollup freshly rebuilt, the inbound and
\* the outbound quantities of the rows of the unfiltered, unlimited SKU
\* breakdown add up to the inbound and outbound quantity totals of the
\* unfiltered dashboard summary.
C30_SkuTotalsMatchDashboard ==
    (/\ query.op = "skus"
     /\ query.result # None
     /\ query.f = NoFilter
     /\ rollup = SetToBag(Aggregate(store, products))) =>
        LET d == invlog_dashboard_summary(rollup, products, NoFilter)
        IN  /\ SkuTotal(query.result[1], "inbound_qty") = d.inbound.total_qty
            /\ SkuTotal(query.result[1], "outbound_qty") = d.outbound.total_qty

====
